---- MODULE Spec2Model ----
(***************************************************************************)
(* rustine-dbal: the transactional Connection (src/src/connection) on top  *)
(* of the SQLite driver connection (src/src/driver/sqlite/connection.rs).  *)
(*                                                                         *)
(* The Connection's fields and the driver's fields are the variables; the  *)
(* public operations are operators over a record of those fields, written  *)
(* after their Rust bodies, and one action per operation applies them.     *)
(***************************************************************************)
EXTENDS Integers, Sequences, FiniteSets, TLC

\* ------------------------------------------------------------------ bounds

\* begin_transaction() calls that may succeed in one behaviour
MaxBegun == 3
\* the unwind loop of close() is counted modulo this number
IterMod == 2

\* nesting_level is an AtomicU32 whose fetch_add / fetch_sub wrap modulo 2^32;
\* TLC's integers are 32 bits wide, so the model wraps it modulo 2^16
U32 == 65536

\* rows the callers insert into the one table of the store
Rows == {"A", "B"}

VARIABLES
    nesting_level,   \* Connection.nesting_level
    rollback_only,   \* Connection.rollback_only
    closed,          \* Connection.closed
    in_transaction,  \* SqliteConnection.in_transaction
    engine,          \* the store behind SqliteConnection.inner
    pc,              \* "ready", "close_unwind" while close() is in its loop,
                     \* or the atomic write a running call performs next
    unwind_iter,     \* iterations of close()'s loop, modulo IterMod
    last,            \* the operation that ran last: its result, its executor
                     \* calls, and whether the connection was closed before it
    begun,           \* history: begin_transaction() calls that returned Ok
    ended,           \* history: commit()/rollback() calls that returned Ok
    obs,             \* history: progress through the nested-transaction scenario
    before,          \* what the getters returned when the running call started
    after,           \* what the getters return once the running call is over
    rpc,             \* the reading task: how many of its three loads are done
    seen,            \* the reading task: the values it has loaded
    guard,           \* the TransactionGuard the caller holds, and its fields
    isolation_level, \* Connection.isolation_level
    executor_isolation,  \* the level of the executor's open transaction
    qb,              \* the QueryBuilder value the caller is chaining on
    chain,           \* history: how many builder methods the caller has
                     \* chained, and the expressions handed to where_expr()
    out,             \* what the last to_sql() returned, for which platform,
                     \* and whether it was the first call on this builder
    ident,           \* the name handed to the Platform
    emitted,         \* the SQL text the Platform returned for it
    tasks,           \* the tasks that call the Connection at the same time:
                     \* the call each is in, the step of it that comes next,
                     \* the level it loaded and the result of its last call
    declared,        \* the Table handed to SchemaManager::create_table
    catalog,         \* the SchemaManager's platform and its database
    table_info,      \* what SchemaManager::introspect_table returned
    cells,           \* a row of column metadata, as the executor returns it
    column_info      \* what SchemaManager::parse_column_row made of it

\* the variables of the reading task
reader == <<before, after, rpc, seen>>

\* the isolation level of the Connection and of the executor
iso == <<isolation_level, executor_isolation>>

\* the query builder and the platform: values without a Connection
text == <<qb, chain, out, ident, emitted>>

\* what the operations of the Connection on one task leave alone
\* the SchemaManager, its database and what it returned
schema == <<declared, catalog, table_info, cells, column_info>>

rest == <<reader, guard, iso, text, tasks, schema>>

vars == <<nesting_level, rollback_only, closed, in_transaction, engine,
          pc, unwind_iter, last, begun, ended, obs, rest>>

\* ------------------------------------------------------ the SQL statements

NoName == <<>>

Sql(verb, name, row) == [verb |-> verb, name |-> name, row |-> row]

\* what the executor was asked to do, and whether it accepted
Call(fn, sql, ok) == [fn |-> fn, sql |-> sql, ok |-> ok]

\* ------------------------------------------------------- the SQLite engine

\* the position of the most recent savepoint called name, 0 when there is none
FindSavepoint(sps, name) ==
    LET hits == {i \in 1..Len(sps) : sps[i].name = name}
    IN  IF hits = {} THEN 0 ELSE CHOOSE i \in hits : \A j \in hits : j <= i

\* One statement run by the engine. fail is a failure of the engine itself
\* (I/O error, busy database): the statement has no effect.
engine_exec(e, sql, fail) ==
    IF fail THEN [e |-> e, ok |-> FALSE]
    ELSE IF sql.verb = "BEGIN" THEN
        IF e.txn THEN [e |-> e, ok |-> FALSE]
        ELSE [e |-> [e EXCEPT !.txn = TRUE, !.savepoints = <<>>], ok |-> TRUE]
    ELSE IF sql.verb = "COMMIT" THEN
        IF ~e.txn THEN [e |-> e, ok |-> FALSE]
        ELSE [e |-> [e EXCEPT !.txn = FALSE, !.savepoints = <<>>,
                              !.durable = e.store], ok |-> TRUE]
    ELSE IF sql.verb = "ROLLBACK" THEN
        IF ~e.txn THEN [e |-> e, ok |-> FALSE]
        ELSE [e |-> [e EXCEPT !.txn = FALSE, !.savepoints = <<>>,
                              !.store = e.durable], ok |-> TRUE]
    ELSE IF sql.verb = "SAVEPOINT" THEN
        [e |-> [e EXCEPT !.txn = TRUE,
                         !.savepoints = Append(@, [name |-> sql.name,
                                                   snap |-> e.store])],
         ok |-> TRUE]
    ELSE IF sql.verb = "RELEASE SAVEPOINT" THEN
        LET i == FindSavepoint(e.savepoints, sql.name)
        IN  IF i = 0 THEN [e |-> e, ok |-> FALSE]
            ELSE [e |-> [e EXCEPT !.savepoints = SubSeq(@, 1, i - 1)],
                  ok |-> TRUE]
    ELSE IF sql.verb = "ROLLBACK TO SAVEPOINT" THEN
        LET i == FindSavepoint(e.savepoints, sql.name)
        IN  IF i = 0 THEN [e |-> e, ok |-> FALSE]
            ELSE [e |-> [e EXCEPT !.savepoints = SubSeq(@, 1, i),
                                  !.store = e.savepoints[i].snap],
                  ok |-> TRUE]
    ELSE IF sql.verb = "INSERT" THEN
        IF sql.row \in e.store THEN [e |-> e, ok |-> FALSE]
        ELSE [e |-> [e EXCEPT !.store = @ \cup {sql.row},
                              !.durable = IF e.txn THEN @ ELSE @ \cup {sql.row}],
              ok |-> TRUE]
    ELSE [e |-> e, ok |-> TRUE]

\* ------------------------------------------------- the driver connection

\* what an operator returns: the fields afterwards, the Result, the executor
\* calls it made, and the Connection operations that ran with their results
Ret(api, s, result, calls) ==
    [s |-> s, result |-> result, calls |-> calls,
     events |-> <<[api |-> api, result |-> result]>>]

\* SqliteConnection::execute
inner_execute(s, sql, fail) ==
    LET r == engine_exec(s.engine, sql, fail)
    IN  [s |-> [s EXCEPT !.engine = r.e],
         result |-> IF r.ok THEN "Ok" ELSE "ExecutionFailed",
         calls |-> <<Call("execute", sql, r.ok)>>]

\* SqliteConnection::query
inner_query(s, sql, fail) ==
    LET r == engine_exec(s.engine, sql, fail)
    IN  [s |-> [s EXCEPT !.engine = r.e],
         result |-> IF r.ok THEN "Ok" ELSE "ExecutionFailed",
         calls |-> <<Call("query", sql, r.ok)>>]

\* SqliteConnection::begin_transaction
inner_begin_transaction(s, fail) ==
    IF s.in_transaction
    THEN [s |-> s, result |-> "AlreadyActive",
          calls |-> <<Call("begin_transaction", Sql("", NoName, ""), FALSE)>>]
    ELSE LET sql == Sql("BEGIN", NoName, "")
             r == engine_exec(s.engine, sql, fail)
         IN  IF ~r.ok
             THEN [s |-> s, result |-> "ExecutionFailed",
                   calls |-> <<Call("begin_transaction", sql, FALSE)>>]
             ELSE [s |-> [s EXCEPT !.engine = r.e, !.in_transaction = TRUE],
                   result |-> "Ok",
                   calls |-> <<Call("begin_transaction", sql, TRUE)>>]

\* a driver commit() that leaves in_transaction set
inner_commit_keeping_flag(s, fail) ==
    IF ~s.in_transaction
    THEN [s |-> s, result |-> "NoActiveTransaction",
          calls |-> <<Call("commit", Sql("", NoName, ""), FALSE)>>]
    ELSE LET sql == Sql("COMMIT", NoName, "")
             r == engine_exec(s.engine, sql, fail)
         IN  IF ~r.ok
             THEN [s |-> s, result |-> "CommitFailed",
                   calls |-> <<Call("commit", sql, FALSE)>>]
             ELSE [s |-> [s EXCEPT !.engine = r.e],
                   result |-> "Ok",
                   calls |-> <<Call("commit", sql, TRUE)>>]

\* SqliteConnection::commit
inner_commit(s, fail) ==
    IF ~s.in_transaction
    THEN [s |-> s, result |-> "NoActiveTransaction",
          calls |-> <<Call("commit", Sql("", NoName, ""), FALSE)>>]
    ELSE LET sql == Sql("COMMIT", NoName, "")
             r == engine_exec(s.engine, sql, fail)
         IN  IF ~r.ok
             THEN [s |-> s, result |-> "CommitFailed",
                   calls |-> <<Call("commit", sql, FALSE)>>]
             ELSE [s |-> [s EXCEPT !.engine = r.e, !.in_transaction = FALSE],
                   result |-> "Ok",
                   calls |-> <<Call("commit", sql, TRUE)>>]

\* SqliteConnection::rollback
inner_rollback(s, fail) ==
    IF ~s.in_transaction
    THEN [s |-> s, result |-> "NoActiveTransaction",
          calls |-> <<Call("rollback", Sql("", NoName, ""), FALSE)>>]
    ELSE LET sql == Sql("ROLLBACK", NoName, "")
             r == engine_exec(s.engine, sql, fail)
         IN  IF ~r.ok
             THEN [s |-> s, result |-> "RollbackFailed",
                   calls |-> <<Call("rollback", sql, FALSE)>>]
             ELSE [s |-> [s EXCEPT !.engine = r.e, !.in_transaction = FALSE],
                   result |-> "Ok",
                   calls |-> <<Call("rollback", sql, TRUE)>>]

\* -------------------------------------------------------- the Connection

\* an ensure_not_closed that lets a closed connection through
ensure_not_closed_absent(s) == "Ok"

\* Connection::ensure_not_closed
ensure_not_closed(s) == IF s.closed THEN "Closed" ELSE "Ok"

\* a savepoint_name that is the same at every depth
savepoint_name_constant(level) == <<"RUSTINE_", 0>>

\* Connection::savepoint_name: format!("RUSTINE_{}", level)
savepoint_name(level) == <<"RUSTINE_", level>>

\* the statement begin_transaction() issues inside a transaction
savepoint_sql(current_level) ==
    Sql("SAVEPOINT", savepoint_name(current_level), "")

\* the statement commit() issues at depth > 1
release_savepoint_sql(current_level) ==
    Sql("RELEASE SAVEPOINT", savepoint_name((current_level - 1) % U32), "")

\* a rollback() that took the statement of commit() for its savepoint
rollback_to_savepoint_as_release(current_level) ==
    Sql("RELEASE SAVEPOINT", savepoint_name((current_level - 1) % U32), "")

\* the statement rollback() issues at depth > 1
rollback_to_savepoint_sql(current_level) ==
    Sql("ROLLBACK TO SAVEPOINT", savepoint_name((current_level - 1) % U32), "")

\* nesting_level.fetch_sub(1), then the reset of rollback_only at level 0
leave_level(s) ==
    LET n == (s.nesting_level - 1) % U32
    IN  [s EXCEPT !.nesting_level = n,
                  !.rollback_only = IF n = 0 THEN FALSE ELSE @]

\* a begin_transaction() that raises the level before the executor answered
begin_transaction_counting_first(s, fail) ==
    IF s.closed
    THEN Ret("begin_transaction", s, "Closed", <<>>)
    ELSE LET current_level == s.nesting_level
             r == IF current_level = 0
                  THEN inner_begin_transaction(s, fail)
                  ELSE inner_execute(s, savepoint_sql(current_level), fail)
         IN  Ret("begin_transaction",
                 [r.s EXCEPT !.nesting_level = (@ + 1) % U32],
                 IF r.result = "Ok" THEN "Ok"
                 ELSE IF current_level = 0 THEN r.result ELSE "CommitFailed",
                 r.calls)

\* Connection::begin_transaction
begin_transaction(s, fail) ==
    IF ensure_not_closed(s) # "Ok"
    THEN Ret("begin_transaction", s, "Closed", <<>>)
    ELSE LET current_level == s.nesting_level
             r == IF current_level = 0
                  THEN inner_begin_transaction(s, fail)
                  ELSE inner_execute(s, savepoint_sql(current_level), fail)
         IN  IF r.result # "Ok"
             THEN Ret("begin_transaction", r.s,
                      IF current_level = 0 THEN r.result ELSE "CommitFailed",
                      r.calls)
             ELSE Ret("begin_transaction",
                      [r.s EXCEPT !.nesting_level = (@ + 1) % U32],
                      "Ok", r.calls)

\* a commit() without the test of rollback_only
commit_ignoring_flag(s, fail) ==
    IF s.closed THEN Ret("commit", s, "Closed", <<>>)
    ELSE LET current_level == s.nesting_level
         IN  IF current_level = 0
             THEN Ret("commit", s, "NoActiveTransaction", <<>>)
             ELSE IF current_level = 1
             THEN LET r == inner_commit(s, fail)
                  IN  IF r.result # "Ok"
                      THEN Ret("commit", r.s, r.result, r.calls)
                      ELSE Ret("commit", leave_level(r.s), "Ok", r.calls)
             ELSE LET r == inner_execute(s, release_savepoint_sql(current_level),
                                         fail)
                  IN  Ret("commit", leave_level(r.s), "Ok", r.calls)

\* a commit() that returns the executor's refusal of RELEASE SAVEPOINT
commit_propagating_release(s, fail) ==
    IF s.closed THEN Ret("commit", s, "Closed", <<>>)
    ELSE LET current_level == s.nesting_level
         IN  IF current_level = 0
             THEN Ret("commit", s, "NoActiveTransaction", <<>>)
             ELSE IF s.rollback_only
             THEN Ret("commit", s, "RollbackOnly", <<>>)
             ELSE LET r == IF current_level = 1
                           THEN inner_commit(s, fail)
                           ELSE inner_execute(
                                    s, release_savepoint_sql(current_level),
                                    fail)
                  IN  IF r.result # "Ok"
                      THEN Ret("commit", r.s,
                               IF current_level = 1 THEN r.result
                               ELSE "CommitFailed",
                               r.calls)
                      ELSE Ret("commit", leave_level(r.s), "Ok", r.calls)

\* Connection::commit
commit(s, fail) ==
    IF ensure_not_closed(s) # "Ok" THEN Ret("commit", s, "Closed", <<>>)
    ELSE LET current_level == s.nesting_level
         IN  IF current_level = 0
             THEN Ret("commit", s, "NoActiveTransaction", <<>>)
             ELSE IF s.rollback_only
             THEN Ret("commit", s, "RollbackOnly", <<>>)
             ELSE IF current_level = 1
             THEN LET r == inner_commit(s, fail)
                  IN  IF r.result # "Ok"
                      THEN Ret("commit", r.s, r.result, r.calls)
                      ELSE Ret("commit", leave_level(r.s), "Ok", r.calls)
             ELSE LET r == inner_execute(s, release_savepoint_sql(current_level),
                                         fail)
                  IN  Ret("commit", leave_level(r.s), "Ok", r.calls)

\* a rollback() that decrements the level before the executor has answered
rollback_early_sub(s, fail) ==
    IF s.closed THEN Ret("rollback", s, "Closed", <<>>)
    ELSE LET current_level == s.nesting_level
         IN  IF current_level = 0
             THEN Ret("rollback", s, "NoActiveTransaction", <<>>)
             ELSE LET r == IF current_level = 1
                           THEN inner_rollback(s, fail)
                           ELSE inner_execute(
                                    s, rollback_to_savepoint_sql(current_level),
                                    fail)
                  IN  IF r.result # "Ok"
                      THEN Ret("rollback", leave_level(r.s),
                               IF current_level = 1 THEN r.result
                               ELSE "RollbackFailed",
                               r.calls)
                      ELSE Ret("rollback", leave_level(r.s), "Ok", r.calls)

\* a rollback() without the test for level 0
rollback_without_level_check(s, fail) ==
    IF s.closed THEN Ret("rollback", s, "Closed", <<>>)
    ELSE LET current_level == s.nesting_level
             r == IF current_level = 1
                  THEN inner_rollback(s, fail)
                  ELSE inner_execute(
                           s, rollback_to_savepoint_sql(current_level), fail)
         IN  IF r.result # "Ok"
             THEN Ret("rollback", r.s,
                      IF current_level = 1 THEN r.result ELSE "RollbackFailed",
                      r.calls)
             ELSE Ret("rollback", leave_level(r.s), "Ok", r.calls)

\* a rollback() that answers Ok whatever the executor answered
rollback_swallowing(s, fail) ==
    IF s.closed THEN Ret("rollback", s, "Closed", <<>>)
    ELSE LET current_level == s.nesting_level
         IN  IF current_level = 0
             THEN Ret("rollback", s, "NoActiveTransaction", <<>>)
             ELSE LET r == IF current_level = 1
                           THEN inner_rollback(s, fail)
                           ELSE inner_execute(
                                    s, rollback_to_savepoint_sql(current_level),
                                    fail)
                  IN  Ret("rollback", leave_level(r.s), "Ok", r.calls)

\* Connection::rollback
rollback(s, fail) ==
    IF ensure_not_closed(s) # "Ok" THEN Ret("rollback", s, "Closed", <<>>)
    ELSE LET current_level == s.nesting_level
         IN  IF current_level = 0
             THEN Ret("rollback", s, "NoActiveTransaction", <<>>)
             ELSE LET r == IF current_level = 1
                           THEN inner_rollback(s, fail)
                           ELSE inner_execute(
                                    s, rollback_to_savepoint_sql(current_level),
                                    fail)
                  IN  IF r.result # "Ok"
                      THEN Ret("rollback", r.s,
                               IF current_level = 1 THEN r.result
                               ELSE "RollbackFailed",
                               r.calls)
                      ELSE Ret("rollback", leave_level(r.s), "Ok", r.calls)

\* Connection::set_rollback_only
set_rollback_only(s) ==
    Ret("set_rollback_only", [s EXCEPT !.rollback_only = TRUE], "Ok", <<>>)

\* Connection::transaction_nesting_level
transaction_nesting_level(s) == s.nesting_level

\* Connection::is_transaction_active
is_transaction_active(s) == s.nesting_level > 0

\* Connection::is_rollback_only
is_rollback_only(s) == s.rollback_only

\* Connection::is_closed
is_closed(s) == s.closed

\* Connection::execute, for the statement INSERT row
execute(s, row, fail) ==
    IF ensure_not_closed(s) # "Ok" THEN Ret("execute", s, "Closed", <<>>)
    ELSE LET r == inner_execute(s, Sql("INSERT", NoName, row), fail)
         IN  Ret("execute", r.s, r.result, r.calls)

\* Connection::query, for a SELECT
query(s, fail) ==
    IF ensure_not_closed(s) # "Ok" THEN Ret("query", s, "Closed", <<>>)
    ELSE LET r == inner_query(s, Sql("SELECT", NoName, ""), fail)
         IN  Ret("query", r.s, r.result, r.calls)

\* Connection::prepare: the driver's prepare takes the lock and cannot fail
prepare(s) ==
    IF ensure_not_closed(s) # "Ok" THEN Ret("prepare", s, "Closed", <<>>)
    ELSE Ret("prepare", s, "Ok",
             <<Call("prepare", Sql("SELECT", NoName, ""), TRUE)>>)

\* Connection::server_version
server_version(s, fail) ==
    IF ensure_not_closed(s) # "Ok" THEN Ret("server_version", s, "Closed", <<>>)
    ELSE Ret("server_version", s,
             IF fail THEN "ExecutionFailed" ELSE "Ok",
             <<Call("server_version", Sql("SELECT", NoName, ""), ~fail)>>)

\* Connection::is_alive: the driver's SELECT 1 .is_ok()
is_alive(s, fail) ==
    IF s.closed THEN Ret("is_alive", s, "false", <<>>)
    ELSE Ret("is_alive", s, IF fail THEN "false" ELSE "true",
             <<Call("is_alive", Sql("SELECT", NoName, ""), ~fail)>>)

\* the future handed to transactional_boxed: it inserts the rows of work one
\* after the other, marks the transaction rollback-only when mark is set, and
\* returns Ok or Err
RECURSIVE run_operation(_, _, _)
run_operation(s, work, mark) ==
    IF work = {}
    THEN IF mark THEN set_rollback_only(s).s ELSE s
    ELSE LET row == CHOOSE x \in work : TRUE
         IN  run_operation(execute(s, row, FALSE).s, work \ {row}, mark)

\* Connection::transactional_boxed
transactional_boxed(s, work, mark, op_ok, fail_begin, fail_end) ==
    LET b == begin_transaction(s, fail_begin)
    IN  IF b.result # "Ok"
        THEN [b EXCEPT !.events = Append(@, [api |-> "transactional_boxed",
                                             result |-> b.result])]
        ELSE LET t == run_operation(b.s, work, mark)
             IN  IF op_ok
                 THEN LET c == commit(t, fail_end)
                      IN  [s |-> c.s,
                           result |-> IF c.result = "Ok" THEN "OpValue"
                                      ELSE c.result,
                           calls |-> b.calls \o c.calls,
                           events |-> b.events \o c.events]
                 ELSE LET r == rollback(t, fail_end)
                      IN  [s |-> r.s, result |-> "OpError",
                           calls |-> b.calls \o r.calls,
                           events |-> b.events \o r.events]

\* a close() that refuses a closed connection as the other operations do
close_checked(s) ==
    IF ensure_not_closed(s) # "Ok" THEN Ret("close", s, "Closed", <<>>)
    ELSE LET t == [s EXCEPT !.closed = TRUE]
         IN  Ret("close", t,
                 IF t.nesting_level > 0 THEN "Pending" ELSE "Ok", <<>>)

\* Connection::close up to the first test of its loop: closed.swap(true) and
\* the early return. "Pending": the loop is entered; "Ok": close() returns
close(s) ==
    IF s.closed THEN Ret("close", [s EXCEPT !.closed = TRUE], "Ok", <<>>)
    ELSE LET t == [s EXCEPT !.closed = TRUE]
         IN  Ret("close", t,
                 IF t.nesting_level > 0 THEN "Pending" ELSE "Ok", <<>>)

\* one iteration of close()'s loop: let _ = self.rollback().await
close_unwind(s, fail) == rollback(s, fail)

\* ------------------------------------------------------------- SQL text

\* A String is a sequence of pieces.  Text supplied by the caller (names,
\* string values, patterns) has one character per piece; the literal parts of
\* the format strings of the source are one piece each.

Platforms == {"Postgres", "MySql", "Sqlite"}

\* str::replace(from, to) for a one-character pattern
RECURSIVE replace(_, _, _)
replace(s, from, to) ==
    IF s = <<>> THEN <<>>
    ELSE (IF Head(s) = from THEN to ELSE <<Head(s)>>)
             \o replace(Tail(s), from, to)

\* [String]::join(sep)
RECURSIVE join(_, _)
join(parts, sep) ==
    IF parts = <<>> THEN <<>>
    ELSE IF Len(parts) = 1 THEN parts[1]
    ELSE parts[1] \o sep \o join(Tail(parts), sep)

\* the character U+0060, which a TLA+ string cannot hold
BACKTICK == "U+0060"

\* Platform::quote_identifier_char
quote_identifier_char(platform) ==
    IF platform = "MySql" THEN BACKTICK ELSE "\""

\* a quote_identifier() that does not double the quote character
quote_identifier_bare(platform, identifier) ==
    <<quote_identifier_char(platform)>> \o identifier
        \o <<quote_identifier_char(platform)>>

\* Platform::quote_identifier
quote_identifier(platform, identifier) ==
    LET quote == quote_identifier_char(platform)
    IN  <<quote>> \o replace(identifier, quote, <<quote, quote>>) \o <<quote>>

\* Platform::quote_string
quote_string(platform, value) ==
    <<"'">> \o replace(value, "'", <<"'", "'">>) \o <<"'">>

\* Platform::supports_returning
supports_returning(platform) == platform \in {"Postgres", "Sqlite"}

\* what to_sql() and the Platform have returned: nothing yet
NoOut == [platform |-> "", sql |-> <<>>, fn |-> "", nth |-> 0]

\* no builder method chained yet
NoChain == [n |-> 0, wheres |-> <<>>, or_where |-> FALSE]

\* Platform::limit_offset_sql
limit_offset_sql(platform, limit, offset) ==
    (IF limit # <<>> THEN <<" LIMIT ", ToString(limit[1])>> ELSE <<>>)
        \o (IF offset # <<>> THEN <<" OFFSET ", ToString(offset[1])>>
            ELSE <<>>)

\* ---------------------------------------------------------------- SqlValue

SqlValue_Bool(b) == [type |-> "Bool", v |-> b]
SqlValue_I64(i) == [type |-> "I64", v |-> i]
SqlValue_String(s) == [type |-> "String", v |-> s]

\* Display for SqlValue
SqlValue_to_string(value) ==
    CASE value.type = "Null" -> <<"NULL">>
      [] value.type = "Bool" -> <<IF value.v THEN "true" ELSE "false">>
      [] value.type = "I64" -> <<ToString(value.v)>>
      [] value.type = "String" ->
             <<"'">> \o replace(value.v, "'", <<"'", "'">>) \o <<"'">>

\* -------------------------------------------------------------------- Expr

\* the variants of enum Expr that the callers below build
Expr_Column(name) == [kind |-> "Column", name |-> name]
Expr_Value(value) == [kind |-> "Value", value |-> value]
Expr_Comparison(left, op, right) ==
    [kind |-> "Comparison", left |-> left, op |-> op, right |-> right]
Expr_And(exprs) == [kind |-> "And", exprs |-> exprs]
Expr_Or(exprs) == [kind |-> "Or", exprs |-> exprs]
Expr_IsNull(inner) == [kind |-> "IsNull", inner |-> inner]

\* ComparisonOp::as_sql
ComparisonOp_as_sql(op) ==
    CASE op = "Eq" -> "="
      [] op = "Ne" -> "<>"
      [] op = "Lt" -> "<"
      [] op = "Le" -> "<="
      [] op = "Gt" -> ">"
      [] op = "Ge" -> ">="

\* Expr::col, Expr::val, Expr::eq, Expr::is_null
Expr_col(name) == Expr_Column(name)
Expr_val(value) == Expr_Value(value)
Expr_eq(self, other) == Expr_Comparison(self, "Eq", other)
Expr_is_null(self) == Expr_IsNull(self)

\* an and() that always wraps its two operands in a new node
Expr_and_nesting(self, other) == Expr_And(<<self, other>>)

\* Expr::and
Expr_and(self, other) ==
    IF self.kind = "And"
    THEN Expr_And(Append(self.exprs, other))
    ELSE Expr_And(<<self, other>>)

\* Expr::or
Expr_or(self, other) ==
    IF self.kind = "Or"
    THEN Expr_Or(Append(self.exprs, other))
    ELSE Expr_Or(<<self, other>>)

\* ------------------------------------------------------------ QueryBuilder

\* Option<T>
None == <<>>
Some(x) == <<x>>

\* QueryBuilder::select
QueryBuilder_select ==
    [query_type |-> "Select", table |-> <<>>, table_alias |-> None,
     columns |-> <<>>, values |-> <<>>, set_values |-> <<>>,
     where_expr |-> None, joins |-> <<>>, group_by |-> <<>>, having |-> None,
     order_by |-> <<>>, limit |-> None, offset |-> None, distinct |-> FALSE,
     returning |-> <<>>]

\* QueryBuilder::insert, update, delete
QueryBuilder_insert == [QueryBuilder_select EXCEPT !.query_type = "Insert"]
QueryBuilder_update == [QueryBuilder_select EXCEPT !.query_type = "Update"]
QueryBuilder_delete == [QueryBuilder_select EXCEPT !.query_type = "Delete"]

\* the chaining methods of QueryBuilder
columns(self, cols) == [self EXCEPT !.columns = @ \o cols]
from(self, table) == [self EXCEPT !.table = table]

\* a where_expr() that makes an And node of the first condition too
where_expr_wrapping(self, expr) ==
    [self EXCEPT !.where_expr =
        Some(IF self.where_expr # None
             THEN Expr_and(self.where_expr[1], expr)
             ELSE Expr_And(<<expr>>))]

\* QueryBuilder::where_expr
where_expr(self, expr) ==
    [self EXCEPT !.where_expr =
        Some(IF self.where_expr # None
             THEN Expr_and(self.where_expr[1], expr)
             ELSE expr)]

where_eq(self, col, value) ==
    where_expr(self, Expr_eq(Expr_col(col), Expr_val(value)))

\* QueryBuilder::or_where
or_where(self, expr) ==
    [self EXCEPT !.where_expr =
        Some(IF self.where_expr # None
             THEN Expr_or(self.where_expr[1], expr)
             ELSE expr)]

\* QueryBuilder::inner_join, left_join, right_join, join_alias

group_by(self, cols) == [self EXCEPT !.group_by = @ \o cols]
order_by(self, col, direction) ==
    [self EXCEPT !.order_by =
        Append(@, [column |-> col, direction |-> direction])]
insert_columns(self, cols) == [self EXCEPT !.columns = cols]
values(self, row) == [self EXCEPT !.values = Append(@, row)]
set(self, col, value) ==
    [self EXCEPT !.set_values = Append(@, <<col, value>>)]
returning(self, cols) == [self EXCEPT !.returning = @ \o cols]

\* JoinType::as_sql
JoinType_as_sql(kind) ==
    CASE kind = "Inner" -> "INNER JOIN"
      [] kind = "Left" -> "LEFT JOIN"
      [] kind = "Right" -> "RIGHT JOIN"
      [] kind = "Full" -> "FULL JOIN"
      [] kind = "Cross" -> "CROSS JOIN"

\* OrderDirection::as_sql
OrderDirection_as_sql(direction) ==
    IF direction = "Asc" THEN "ASC" ELSE "DESC"

\* QueryBuilder::value_to_sql
value_to_sql(value) == SqlValue_to_string(value)

\* QueryBuilder::expr_to_sql
RECURSIVE expr_to_sql(_, _)
expr_to_sql(expr, platform) ==
    CASE expr.kind = "Column" -> quote_identifier(platform, expr.name)
      [] expr.kind = "Value" -> value_to_sql(expr.value)
      [] expr.kind = "Param" -> expr.name
      [] expr.kind = "Comparison" ->
             expr_to_sql(expr.left, platform)
                 \o <<" ", ComparisonOp_as_sql(expr.op), " ">>
                 \o expr_to_sql(expr.right, platform)
      [] expr.kind = "And" ->
             <<"(">>
                 \o join([i \in DOMAIN expr.exprs |->
                             expr_to_sql(expr.exprs[i], platform)],
                         <<" AND ">>)
                 \o <<")">>
      [] expr.kind = "Or" ->
             <<"(">>
                 \o join([i \in DOMAIN expr.exprs |->
                             expr_to_sql(expr.exprs[i], platform)],
                         <<" OR ">>)
                 \o <<")">>
      [] expr.kind = "Not" ->
             <<"NOT (">> \o expr_to_sql(expr.inner, platform) \o <<")">>
      [] expr.kind = "IsNull" ->
             expr_to_sql(expr.inner, platform) \o <<" IS NULL">>
      [] expr.kind = "IsNotNull" ->
             expr_to_sql(expr.inner, platform) \o <<" IS NOT NULL">>
      [] expr.kind = "In" ->
             expr_to_sql(expr.col, platform) \o <<" IN (">>
                 \o join([i \in DOMAIN expr.values |->
                             expr_to_sql(expr.values[i], platform)],
                         <<", ">>)
                 \o <<")">>
      [] expr.kind = "NotIn" ->
             expr_to_sql(expr.col, platform) \o <<" NOT IN (">>
                 \o join([i \in DOMAIN expr.values |->
                             expr_to_sql(expr.values[i], platform)],
                         <<", ">>)
                 \o <<")">>
      [] expr.kind = "Between" ->
             expr_to_sql(expr.col, platform) \o <<" BETWEEN ">>
                 \o expr_to_sql(expr.low, platform) \o <<" AND ">>
                 \o expr_to_sql(expr.high, platform)
      [] expr.kind = "Like" ->
             expr_to_sql(expr.col, platform) \o <<" LIKE ">>
                 \o quote_string(platform, expr.pattern)
      [] expr.kind = "Raw" -> expr.sql

\* the column list of a clause, every column through quote_identifier
quoted_list(cols, platform) ==
    join([i \in DOMAIN cols |-> quote_identifier(platform, cols[i])],
         <<", ">>)

\* the select list: the column * is pushed as it is
select_list(cols, platform) ==
    join([i \in DOMAIN cols |->
             IF cols[i] = <<"*">> THEN cols[i]
             ELSE quote_identifier(platform, cols[i])],
         <<", ">>)

\* the WHERE clause of build_select, build_update and build_delete
where_sql(self, platform) ==
    IF self.where_expr # None
    THEN <<" WHERE ">> \o expr_to_sql(self.where_expr[1], platform)
    ELSE <<>>

\* a RETURNING clause that is appended on every platform
returning_always(self, platform) ==
    IF self.returning # <<>>
    THEN <<" RETURNING ">> \o quoted_list(self.returning, platform)
    ELSE <<>>

\* the RETURNING clause of build_insert, build_update and build_delete
returning_sql(self, platform) ==
    IF self.returning # <<>> /\ supports_returning(platform)
    THEN <<" RETURNING ">> \o quoted_list(self.returning, platform)
    ELSE <<>>

\* one JOIN clause of build_select
join_sql(j, platform) ==
    <<" ", JoinType_as_sql(j.kind), " ">>
        \o quote_identifier(platform, j.table)
        \o (IF j.alias # None
            THEN <<" AS ">> \o quote_identifier(platform, j.alias[1])
            ELSE <<>>)
        \o <<" ON ">> \o expr_to_sql(j.condition, platform)

\* QueryBuilder::build_select
build_select(self, platform) ==
    <<"SELECT ">>
        \o (IF self.distinct THEN <<"DISTINCT ">> ELSE <<>>)
        \o (IF self.columns = <<>> THEN <<"*">>
            ELSE select_list(self.columns, platform))
        \o <<" FROM ">> \o quote_identifier(platform, self.table)
        \o (IF self.table_alias # None
            THEN <<" AS ">> \o quote_identifier(platform, self.table_alias[1])
            ELSE <<>>)
        \o join([i \in DOMAIN self.joins |-> join_sql(self.joins[i], platform)],
                <<>>)
        \o where_sql(self, platform)
        \o (IF self.group_by # <<>>
            THEN <<" GROUP BY ">> \o quoted_list(self.group_by, platform)
            ELSE <<>>)
        \o (IF self.having # None
            THEN <<" HAVING ">> \o expr_to_sql(self.having[1], platform)
            ELSE <<>>)
        \o (IF self.order_by # <<>>
            THEN <<" ORDER BY ">>
                     \o join([i \in DOMAIN self.order_by |->
                                 quote_identifier(platform,
                                                  self.order_by[i].column)
                                     \o <<" ", OrderDirection_as_sql(
                                                   self.order_by[i].direction)>>],
                             <<", ">>)
            ELSE <<>>)
        \o limit_offset_sql(platform, self.limit, self.offset)

\* QueryBuilder::build_insert
build_insert(self, platform) ==
    <<"INSERT INTO ">> \o quote_identifier(platform, self.table)
        \o (IF self.columns # <<>>
            THEN <<" (">> \o quoted_list(self.columns, platform) \o <<")">>
            ELSE <<>>)
        \o <<" VALUES ">>
        \o join([r \in DOMAIN self.values |->
                    <<"(">>
                        \o join([i \in DOMAIN self.values[r] |->
                                    value_to_sql(self.values[r][i])],
                                <<", ">>)
                        \o <<")">>],
                <<", ">>)
        \o returning_sql(self, platform)

\* QueryBuilder::build_update
build_update(self, platform) ==
    <<"UPDATE ">> \o quote_identifier(platform, self.table)
        \o <<" SET ">>
        \o join([i \in DOMAIN self.set_values |->
                    quote_identifier(platform, self.set_values[i][1])
                        \o <<" = ">> \o value_to_sql(self.set_values[i][2])],
                <<", ">>)
        \o where_sql(self, platform)
        \o returning_sql(self, platform)

\* QueryBuilder::build_delete
build_delete(self, platform) ==
    <<"DELETE FROM ">> \o quote_identifier(platform, self.table)
        \o where_sql(self, platform)
        \o returning_sql(self, platform)

\* QueryBuilder::to_sql
to_sql(self, platform) ==
    CASE self.query_type = "Select" -> build_select(self, platform)
      [] self.query_type = "Insert" -> build_insert(self, platform)
      [] self.query_type = "Update" -> build_update(self, platform)
      [] self.query_type = "Delete" -> build_delete(self, platform)

\* ------------------------------------------------------------- the actions

Cur == [nesting_level |-> nesting_level, rollback_only |-> rollback_only,
        closed |-> closed, in_transaction |-> in_transaction,
        engine |-> engine]

Succeeded(events, apis) ==
    Cardinality({i \in DOMAIN events :
                    events[i].api \in apis /\ events[i].result = "Ok"})

NoObs == [stage |-> 0, a |-> "", b |-> ""]

\* the scenario begin; INSERT a; begin; INSERT b; rollback; commit, every
\* call returning Ok and no other call in between
ObsNext(o, op, row, result, level) ==
    IF result = "Ok" /\ o.stage = 1 /\ op = "execute"
    THEN [o EXCEPT !.stage = 2, !.a = row]
    ELSE IF result = "Ok" /\ o.stage = 2 /\ op = "begin_transaction"
    THEN [o EXCEPT !.stage = 3]
    ELSE IF result = "Ok" /\ o.stage = 3 /\ op = "execute"
    THEN [o EXCEPT !.stage = 4, !.b = row]
    ELSE IF result = "Ok" /\ o.stage = 4 /\ op = "rollback"
    THEN [o EXCEPT !.stage = 5]
    ELSE IF result = "Ok" /\ o.stage = 5 /\ op = "commit"
    THEN [o EXCEPT !.stage = 6]
    ELSE IF result = "Ok" /\ op = "begin_transaction" /\ level = 0
    THEN [NoObs EXCEPT !.stage = 1]
    ELSE NoObs

\* transaction_nesting_level(), is_rollback_only() and is_closed() together
Getters(s) ==
    [level |-> transaction_nesting_level(s),
     rollback_only |-> is_rollback_only(s),
     closed |-> is_closed(s)]

NoneSeen == [level |-> 0, rollback_only |-> FALSE, closed |-> FALSE]

\* no TransactionGuard is held
NoGuard == [state |-> "none", committed |-> FALSE, rolled_back |-> FALSE,
            level_before |-> 0]

\* the tasks that share the Connection
Tasks == {1, 2}

\* a task that is in no call
NoCall == [op |-> "", pc |-> "idle", current_level |-> 0, result |-> ""]

\* enum IsolationLevel and its #[default]
IsolationLevel ==
    {"ReadUncommitted", "ReadCommitted", "RepeatableRead", "Serializable"}

IsolationLevel_default == "ReadCommitted"

SetFields(s) ==
    /\ nesting_level' = s.nesting_level
    /\ rollback_only' = s.rollback_only
    /\ closed' = s.closed
    /\ in_transaction' = s.in_transaction
    /\ engine' = s.engine

\* the fields and the history after an operation has returned
Apply(op, row, work, r) ==
    /\ SetFields(r.s)
    /\ last' = [op |-> op, row |-> row, work |-> work, result |-> r.result,
                calls |-> r.calls, was_closed |-> closed]
    /\ begun' = begun + Succeeded(r.events, {"begin_transaction"})
    /\ ended' = ended + Succeeded(r.events, {"commit", "rollback"})
    /\ obs' = ObsNext(obs, op, row, r.result, nesting_level)
    /\ UNCHANGED <<pc, unwind_iter>>

\* an operation that runs to its return in one step
Do(op, row, work, r) ==
    /\ Apply(op, row, work, r)
    /\ UNCHANGED rest

\* no Table was created, no row was parsed
NoSchema ==
    /\ declared = None
    /\ catalog = None
    /\ table_info = None
    /\ cells = <<>>
    /\ column_info = None

\* a Connection fresh from its constructor, with nothing done on it
ConnectionInit ==
    /\ nesting_level = 0
    /\ rollback_only = FALSE
    /\ closed = FALSE
    /\ in_transaction = FALSE
    /\ engine = [txn |-> FALSE, store |-> {}, durable |-> {},
                 savepoints |-> <<>>]
    /\ pc = "ready"
    /\ unwind_iter = 0
    /\ last = [op |-> "new", row |-> "", work |-> {}, result |-> "Ok",
               calls |-> <<>>,
               was_closed |-> FALSE]
    /\ begun = 0
    /\ ended = 0
    /\ obs = NoObs
    /\ before = Getters(Cur)
    /\ after = Getters(Cur)
    /\ rpc = 0
    /\ seen = NoneSeen
    /\ guard = NoGuard
    /\ tasks = [t \in Tasks |-> NoCall]
    /\ isolation_level = IsolationLevel_default
    /\ executor_isolation = "None"

Init ==
    /\ ConnectionInit
    /\ qb = QueryBuilder_select
    /\ chain = NoChain
    /\ out = NoOut
    /\ ident = <<>>
    /\ emitted = NoOut
    /\ NoSchema

BeginTransaction ==
    /\ pc = "ready"
    /\ begun < MaxBegun
    /\ \E fail \in BOOLEAN :
          Do("begin_transaction", "", {}, begin_transaction(Cur, fail))

Commit ==
    /\ pc = "ready"
    /\ \E fail \in BOOLEAN : Do("commit", "", {}, commit(Cur, fail))

Rollback ==
    /\ pc = "ready"
    /\ \E fail \in BOOLEAN : Do("rollback", "", {}, rollback(Cur, fail))

SetRollbackOnly ==
    /\ pc = "ready"
    /\ Do("set_rollback_only", "", {}, set_rollback_only(Cur))

Execute ==
    /\ pc = "ready"
    /\ \E row \in Rows, fail \in BOOLEAN :
          Do("execute", row, {}, execute(Cur, row, fail))

Query ==
    /\ pc = "ready"
    /\ \E fail \in BOOLEAN : Do("query", "", {}, query(Cur, fail))

Prepare ==
    /\ pc = "ready"
    /\ Do("prepare", "", {}, prepare(Cur))

ServerVersion ==
    /\ pc = "ready"
    /\ \E fail \in BOOLEAN : Do("server_version", "", {}, server_version(Cur, fail))

IsAlive ==
    /\ pc = "ready"
    /\ \E fail \in BOOLEAN : Do("is_alive", "", {}, is_alive(Cur, fail))

Transactional ==
    /\ pc = "ready"
    /\ begun < MaxBegun
    /\ \E work \in SUBSET (Rows \ engine.store), mark \in BOOLEAN,
          op_ok \in BOOLEAN, fail_begin \in BOOLEAN, fail_end \in BOOLEAN :
          Do("transactional_boxed", "", work,
             transactional_boxed(Cur, work, mark, op_ok, fail_begin, fail_end))

\* close() up to its loop; it returns at once when the connection was closed
\* already or no transaction is open
Close ==
    /\ pc = "ready"
    /\ LET c == close(Cur)
       IN  /\ SetFields(c.s)
           /\ pc' = IF c.result = "Pending" THEN "close_unwind" ELSE "ready"
           /\ last' = [op |-> "close", row |-> "", work |-> {},
                       result |-> c.result,
                       calls |-> c.calls, was_closed |-> closed]
           /\ unwind_iter' = 0
           /\ obs' = NoObs
           /\ UNCHANGED <<begun, ended, rest>>

\* one iteration of the loop of close(), and its return once the level is 0
CloseUnwind ==
    /\ pc = "close_unwind"
    /\ \E fail \in BOOLEAN :
          LET r == close_unwind(Cur, fail)
          IN  /\ SetFields(r.s)
              /\ pc' = IF r.s.nesting_level > 0 THEN "close_unwind" ELSE "ready"
              /\ last' = [op |-> "close", row |-> "", work |-> {},
                          result |-> IF r.s.nesting_level > 0
                                     THEN "Pending" ELSE "Ok",
                          calls |-> r.calls, was_closed |-> last.was_closed]
              /\ unwind_iter' = (unwind_iter + 1) % IterMod
              /\ ended' = ended + Succeeded(r.events, {"rollback"})
              /\ UNCHANGED <<begun, obs, rest>>

Next ==
    \/ BeginTransaction
    \/ Commit
    \/ Rollback
    \/ SetRollbackOnly
    \/ Execute
    \/ Query
    \/ Prepare
    \/ ServerVersion
    \/ IsAlive
    \/ Transactional
    \/ Close
    \/ CloseUnwind

Spec == Init /\ [][Next]_vars

\* the task that runs close() keeps running its loop
FairSpec == Spec /\ WF_vars(CloseUnwind)

\* ------------------------------------- the atomic writes, one step at a time

\* A second task calls the getters while begin_transaction(), commit() or
\* rollback() runs.  The running call answers the executor in its first step
\* and then performs its atomic writes one by one; the reading task performs
\* its three loads one by one in between.

InFlight == pc \in {"fetch_add", "fetch_sub", "reset_rollback_only"}

\* a call up to its first atomic write: the checks and the executor call
CallStep(r, next_pc) ==
    /\ in_transaction' = r.s.in_transaction
    /\ engine' = r.s.engine
    /\ pc' = IF r.result = "Ok" THEN next_pc ELSE "ready"
    /\ before' = Getters(Cur)
    /\ after' = Getters(r.s)
    /\ rpc' = 0
    /\ seen' = NoneSeen
    /\ UNCHANGED <<nesting_level, rollback_only, closed, unwind_iter, last,
                   begun, ended, obs, guard, iso, text, tasks, schema>>

BeginCall ==
    /\ pc = "ready"
    /\ begun < MaxBegun
    /\ \E fail \in BOOLEAN : CallStep(begin_transaction(Cur, fail), "fetch_add")

CommitCall ==
    /\ pc = "ready"
    /\ \E fail \in BOOLEAN : CallStep(commit(Cur, fail), "fetch_sub")

RollbackCall ==
    /\ pc = "ready"
    /\ \E fail \in BOOLEAN : CallStep(rollback(Cur, fail), "fetch_sub")

\* nesting_level.fetch_add(1), the last write of begin_transaction()
FetchAdd ==
    /\ pc = "fetch_add"
    /\ nesting_level' = (nesting_level + 1) % U32
    /\ pc' = "ready"
    /\ begun' = begun + 1
    /\ rpc' = 0
    /\ seen' = NoneSeen
    /\ UNCHANGED <<rollback_only, closed, in_transaction, engine, unwind_iter,
                   last, ended, obs, before, after, guard, iso, text,
                   tasks, schema>>

\* nesting_level.fetch_sub(1) of commit() and rollback()
FetchSub ==
    /\ pc = "fetch_sub"
    /\ nesting_level' = (nesting_level - 1) % U32
    /\ pc' = "reset_rollback_only"
    /\ UNCHANGED <<rollback_only, closed, in_transaction, engine, unwind_iter,
                   last, begun, ended, obs, rest>>

\* the load of nesting_level and the store to rollback_only that follow it
ResetRollbackOnly ==
    /\ pc = "reset_rollback_only"
    /\ rollback_only' = IF nesting_level = 0 THEN FALSE ELSE rollback_only
    /\ pc' = "ready"
    /\ ended' = ended + 1
    /\ rpc' = 0
    /\ seen' = NoneSeen
    /\ UNCHANGED <<nesting_level, closed, in_transaction, engine, unwind_iter,
                   last, begun, obs, before, after, guard, iso, text,
                   tasks, schema>>

\* the reading task: transaction_nesting_level()
LoadNestingLevel ==
    /\ InFlight
    /\ rpc = 0
    /\ seen' = [seen EXCEPT !.level = transaction_nesting_level(Cur)]
    /\ rpc' = 1
    /\ UNCHANGED <<nesting_level, rollback_only, closed, in_transaction,
                   engine, pc, unwind_iter, last, begun, ended, obs,
                   before, after, guard, iso, text, tasks, schema>>

\* the reading task: is_rollback_only()
LoadRollbackOnly ==
    /\ InFlight
    /\ rpc = 1
    /\ seen' = [seen EXCEPT !.rollback_only = is_rollback_only(Cur)]
    /\ rpc' = 2
    /\ UNCHANGED <<nesting_level, rollback_only, closed, in_transaction,
                   engine, pc, unwind_iter, last, begun, ended, obs,
                   before, after, guard, iso, text, tasks, schema>>

\* the reading task: is_closed()
LoadClosed ==
    /\ InFlight
    /\ rpc = 2
    /\ seen' = [seen EXCEPT !.closed = is_closed(Cur)]
    /\ rpc' = 3
    /\ UNCHANGED <<nesting_level, rollback_only, closed, in_transaction,
                   engine, pc, unwind_iter, last, begun, ended, obs,
                   before, after, guard, iso, text, tasks, schema>>

RaceNext ==
    \/ BeginCall
    \/ CommitCall
    \/ RollbackCall
    \/ FetchAdd
    \/ FetchSub
    \/ ResetRollbackOnly
    \/ SetRollbackOnly
    \/ LoadNestingLevel
    \/ LoadRollbackOnly
    \/ LoadClosed

RaceSpec == Init /\ [][RaceNext]_vars

\* ------------------------------------------------- the TransactionGuard

\* TransactionGuard::new, for the transaction the caller has just begun
GuardNew ==
    /\ pc = "ready"
    /\ guard.state # "held"
    /\ last.op = "begin_transaction"
    /\ last.result = "Ok"
    /\ guard' = [state |-> "held", committed |-> FALSE, rolled_back |-> FALSE,
                 level_before |-> (nesting_level - 1) % U32]
    /\ last' = [op |-> "guard_new", row |-> "", work |-> {}, result |-> "Ok",
                calls |-> <<>>, was_closed |-> closed]
    /\ UNCHANGED <<nesting_level, rollback_only, closed, in_transaction,
                   engine, pc, unwind_iter, begun, ended, obs, reader, iso,
                   text, tasks, schema>>

\* TransactionGuard::commit: the flag, Connection::commit, then the drop of
\* the consumed guard
GuardCommit ==
    /\ pc = "ready"
    /\ guard.state = "held"
    /\ guard' = [guard EXCEPT !.state = "dropped", !.committed = TRUE]
    /\ \E fail \in BOOLEAN : Apply("guard_commit", "", {}, commit(Cur, fail))
    /\ UNCHANGED <<reader, iso, text, tasks, schema>>

\* TransactionGuard::rollback: the flag, Connection::rollback, then the drop
\* of the consumed guard
GuardRollback ==
    /\ pc = "ready"
    /\ guard.state = "held"
    /\ guard' = [guard EXCEPT !.state = "dropped", !.rolled_back = TRUE]
    /\ \E fail \in BOOLEAN : Apply("guard_rollback", "", {}, rollback(Cur, fail))
    /\ UNCHANGED <<reader, iso, text, tasks, schema>>

\* Drop for TransactionGuard, of a guard that was neither committed nor
\* rolled back: a warning is logged
GuardDrop ==
    /\ pc = "ready"
    /\ guard.state = "held"
    /\ guard' = [guard EXCEPT !.state = "dropped"]
    /\ last' = [op |-> "guard_drop", row |-> "", work |-> {}, result |-> "Ok",
                calls |-> <<>>, was_closed |-> closed]
    /\ UNCHANGED <<nesting_level, rollback_only, closed, in_transaction,
                   engine, pc, unwind_iter, begun, ended, obs, reader, iso,
                   text, tasks, schema>>

GuardNext ==
    \/ BeginTransaction
    \/ Execute
    \/ SetRollbackOnly
    \/ GuardNew
    \/ GuardCommit
    \/ GuardRollback
    \/ GuardDrop

GuardSpec == Init /\ [][GuardNext]_vars

\* ------------------------------------------------- the isolation level

\* Connection::set_transaction_isolation
set_transaction_isolation(level) == level

\* Connection::transaction_isolation
transaction_isolation == isolation_level

\* the level of the executor's transaction after an operation: a transaction
\* the executor has started runs at the executor's own level, since
\* begin_transaction() hands it no level
executor_level(s, own) ==
    IF ~s.engine.txn THEN "None"
    ELSE IF ~engine.txn THEN own
    ELSE executor_isolation

SetTransactionIsolation ==
    /\ pc = "ready"
    /\ \E level \in IsolationLevel :
          /\ isolation_level' = set_transaction_isolation(level)
          /\ last' = [op |-> "set_transaction_isolation", row |-> "",
                      work |-> {}, result |-> level, calls |-> <<>>,
                      was_closed |-> closed]
    /\ UNCHANGED <<nesting_level, rollback_only, closed, in_transaction,
                   engine, pc, unwind_iter, begun, ended, obs, reader, guard,
                   executor_isolation, text, tasks, schema>>

TransactionIsolation ==
    /\ pc = "ready"
    /\ last' = [op |-> "transaction_isolation", row |-> "", work |-> {},
                result |-> transaction_isolation, calls |-> <<>>,
                was_closed |-> closed]
    /\ UNCHANGED <<nesting_level, rollback_only, closed, in_transaction,
                   engine, pc, unwind_iter, begun, ended, obs, rest>>

\* an operation of the Connection, and the level the executor runs at after it
DoAtLevel(op, r, own) ==
    /\ Apply(op, "", {}, r)
    /\ executor_isolation' = executor_level(r.s, own)
    /\ UNCHANGED <<reader, guard, isolation_level, text, tasks, schema>>

BeginAtLevel ==
    /\ pc = "ready"
    /\ begun < MaxBegun
    /\ \E fail \in BOOLEAN, own \in IsolationLevel :
          DoAtLevel("begin_transaction", begin_transaction(Cur, fail), own)

CommitAtLevel ==
    /\ pc = "ready"
    /\ \E fail \in BOOLEAN, own \in IsolationLevel :
          DoAtLevel("commit", commit(Cur, fail), own)

RollbackAtLevel ==
    /\ pc = "ready"
    /\ \E fail \in BOOLEAN, own \in IsolationLevel :
          DoAtLevel("rollback", rollback(Cur, fail), own)

IsoNext ==
    \/ SetTransactionIsolation
    \/ TransactionIsolation
    \/ BeginAtLevel
    \/ CommitAtLevel
    \/ RollbackAtLevel

IsoSpec == Init /\ [][IsoNext]_vars

\* ---------------------------------------------------- the query builder

\* builder methods chained on one builder value
MaxChain == 3

\* the names and values the callers use
N_id == <<"i", "d">>
N_name == <<"n", "a", "m", "e">>
N_users == <<"u", "s", "e", "r", "s">>
N_active == <<"a", "c", "t", "i", "v", "e">>
N_star == <<"*">>
V_text == SqlValue_String(<<"o", "'", "k">>)

E_active == Expr_eq(Expr_col(N_active), Expr_val(SqlValue_Bool(TRUE)))
E_id == Expr_eq(Expr_col(N_id), Expr_val(SqlValue_I64(1)))
E_null == Expr_is_null(Expr_col(N_name))

\* the expressions handed to where_expr() and or_where()
Exprs == {E_id, E_null, Expr_And(<<E_active, E_id>>), Expr_Or(<<E_id, E_null>>)}

\* one more method on the builder: a new builder value, and no to_sql() of it
Chain(self, wheres, by_or) ==
    /\ qb' = self
    /\ chain' = [n |-> chain.n + 1, wheres |-> chain.wheres \o wheres,
                 or_where |-> chain.or_where \/ by_or]
    /\ out' = NoOut
    /\ UNCHANGED <<nesting_level, rollback_only, closed, in_transaction,
                   engine, pc, unwind_iter, last, begun, ended, obs, reader,
                   guard, iso, ident, emitted, tasks, schema>>

Columns ==
    /\ chain.n < MaxChain
    /\ qb.query_type = "Select"
    /\ \E cols \in {<<N_id, N_name>>, <<N_star>>} :
          Chain(columns(qb, cols), <<>>, FALSE)


From ==
    /\ chain.n < MaxChain
    /\ Chain(from(qb, N_users), <<>>, FALSE)

WhereEq ==
    /\ chain.n < MaxChain
    /\ \E c \in {<<N_active, SqlValue_Bool(TRUE)>>,
                  <<N_id, SqlValue_I64(1)>>} :
          Chain(where_eq(qb, c[1], c[2]),
                <<Expr_eq(Expr_col(c[1]), Expr_val(c[2]))>>, FALSE)

WhereExpr ==
    /\ chain.n < MaxChain
    /\ \E e \in Exprs : Chain(where_expr(qb, e), <<e>>, FALSE)

OrWhere ==
    /\ chain.n < MaxChain
    /\ Chain(or_where(qb, E_null), <<>>, TRUE)


GroupBy ==
    /\ chain.n < MaxChain
    /\ qb.query_type = "Select"
    /\ \E cols \in {<<N_id>>, <<N_star>>} :
          Chain(group_by(qb, cols), <<>>, FALSE)

OrderBy ==
    /\ chain.n < MaxChain
    /\ qb.query_type = "Select"
    /\ \E c \in {<<N_id, "Asc">>, <<N_star, "Desc">>} :
          Chain(order_by(qb, c[1], c[2]), <<>>, FALSE)


InsertColumns ==
    /\ chain.n < MaxChain
    /\ qb.query_type = "Insert"
    /\ Chain(insert_columns(qb, <<N_name>>), <<>>, FALSE)

Values ==
    /\ chain.n < MaxChain
    /\ qb.query_type = "Insert"
    /\ Chain(values(qb, <<V_text>>), <<>>, FALSE)

Set ==
    /\ chain.n < MaxChain
    /\ qb.query_type = "Update"
    /\ Chain(set(qb, N_name, V_text), <<>>, FALSE)

Returning ==
    /\ chain.n < MaxChain
    /\ qb.query_type # "Select"
    /\ \E cols \in {<<N_id>>, <<N_star>>} :
          Chain(returning(qb, cols), <<>>, FALSE)

\* to_sql(&self, platform): the builder is borrowed, the text returned
ToSql ==
    /\ \E platform \in Platforms :
          out' = [platform |-> platform, sql |-> to_sql(qb, platform),
                  fn |-> "to_sql", nth |-> IF out.fn = "to_sql" THEN 2 ELSE 1]
    /\ UNCHANGED <<nesting_level, rollback_only, closed, in_transaction,
                   engine, pc, unwind_iter, last, begun, ended, obs, reader,
                   guard, iso, qb, chain, ident, emitted, tasks, schema>>

\* the builder fresh from one of its four constructors
BuilderInit ==
    /\ ConnectionInit
    /\ qb \in {QueryBuilder_select, QueryBuilder_insert, QueryBuilder_update,
               QueryBuilder_delete}
    /\ chain = NoChain
    /\ out = NoOut
    /\ ident = <<>>
    /\ emitted = NoOut
    /\ NoSchema

BuilderNext ==
    \/ Columns
    \/ From
    \/ WhereEq
    \/ WhereExpr
    \/ OrWhere
    \/ GroupBy
    \/ OrderBy
    \/ InsertColumns
    \/ Values
    \/ Set
    \/ Returning
    \/ ToSql

BuilderSpec == BuilderInit /\ [][BuilderNext]_vars

\* ------------------------------------------------- the SQL of the Platform

\* the longest name handed to the Platform
MaxLen == 3

\* the characters of the names: a letter and the three quote characters
Chars == {"a", "\"", "'", BACKTICK}

\* the names of length n
RECURSIVE NamesOfLen(_)
NamesOfLen(n) ==
    IF n = 0 THEN {<<>>}
    ELSE {Append(s, c) : s \in NamesOfLen(n - 1), c \in Chars}

Idents == UNION {NamesOfLen(n) : n \in 0..MaxLen}

\* Platform::get_drop_table_sql
get_drop_table_sql(platform, table_name) ==
    <<"DROP TABLE ">> \o quote_identifier(platform, table_name)

\* Platform::get_list_columns_sql of the three platforms
get_list_columns_sql(platform, table_name) ==
    CASE platform = "Postgres" ->
             <<"SELECT column_name, data_type, is_nullable, column_default, character_maximum_length, numeric_precision, numeric_scale FROM information_schema.columns WHERE table_schema = 'public' AND table_name = ",
               "'">> \o table_name \o <<"'", " ORDER BY ordinal_position">>
      [] platform = "MySql" ->
             <<"SELECT column_name, data_type, is_nullable, column_default, character_maximum_length, numeric_precision, numeric_scale, extra FROM information_schema.columns WHERE table_schema = DATABASE() AND table_name = ",
               "'">> \o table_name \o <<"'", " ORDER BY ordinal_position">>
      [] platform = "Sqlite" ->
             <<"PRAGMA table_info(">> \o quote_identifier(platform, table_name)
                 \o <<")">>

\* Platform::get_list_indexes_sql of the three platforms
get_list_indexes_sql(platform, table_name) ==
    CASE platform = "Postgres" ->
             <<"SELECT i.relname AS index_name, a.attname AS column_name, ix.indisunique AS is_unique, ix.indisprimary AS is_primary FROM pg_class t, pg_class i, pg_index ix, pg_attribute a WHERE t.oid = ix.indrelid AND i.oid = ix.indexrelid AND a.attrelid = t.oid AND a.attnum = ANY(ix.indkey) AND t.relkind = 'r' AND t.relname = ",
               "'">> \o table_name \o <<"'">>
      [] platform = "MySql" ->
             <<"SELECT index_name, column_name, non_unique FROM information_schema.statistics WHERE table_schema = DATABASE() AND table_name = ",
               "'">> \o table_name
                 \o <<"'", " ORDER BY index_name, seq_in_index">>
      [] platform = "Sqlite" ->
             <<"PRAGMA index_list(">> \o quote_identifier(platform, table_name)
                 \o <<")">>

\* Platform::get_list_foreign_keys_sql of the three platforms
get_list_foreign_keys_sql(platform, table_name) ==
    CASE platform = "Postgres" ->
             <<"SELECT tc.constraint_name, kcu.column_name, ccu.table_name AS foreign_table_name, ccu.column_name AS foreign_column_name FROM information_schema.table_constraints AS tc JOIN information_schema.key_column_usage AS kcu ON tc.constraint_name = kcu.constraint_name JOIN information_schema.constraint_column_usage AS ccu ON ccu.constraint_name = tc.constraint_name WHERE tc.constraint_type = 'FOREIGN KEY' AND tc.table_name = ",
               "'">> \o table_name \o <<"'">>
      [] platform = "MySql" ->
             <<"SELECT constraint_name, column_name, referenced_table_name, referenced_column_name FROM information_schema.key_column_usage WHERE table_schema = DATABASE() AND table_name = ",
               "'">> \o table_name
                 \o <<"'", " AND referenced_table_name IS NOT NULL">>
      [] platform = "Sqlite" ->
             <<"PRAGMA foreign_key_list(">>
                 \o quote_identifier(platform, table_name) \o <<")">>

\* what a function of the Platform returned, and for which platform
Emitted(fn, platform, sql) ==
    [platform |-> platform, sql |-> sql, fn |-> fn, nth |-> 1]

\* what a function of the Platform leaves alone
besides_emitted == <<nesting_level, rollback_only, closed, in_transaction,
                     engine, pc, unwind_iter, last, begun, ended, obs, reader,
                     guard, iso, qb, chain, out, ident, tasks, schema>>

QuoteIdentifier ==
    \E platform \in Platforms :
        /\ emitted' = Emitted("quote_identifier", platform,
                            quote_identifier(platform, ident))
        /\ UNCHANGED besides_emitted

DropTableSql ==
    \E platform \in Platforms :
        /\ emitted' = Emitted("get_drop_table_sql", platform,
                            get_drop_table_sql(platform, ident))
        /\ UNCHANGED besides_emitted

ListColumnsSql ==
    \E platform \in Platforms :
        /\ emitted' = Emitted("get_list_columns_sql", platform,
                            get_list_columns_sql(platform, ident))
        /\ UNCHANGED besides_emitted

ListIndexesSql ==
    \E platform \in Platforms :
        /\ emitted' = Emitted("get_list_indexes_sql", platform,
                            get_list_indexes_sql(platform, ident))
        /\ UNCHANGED besides_emitted

ListForeignKeysSql ==
    \E platform \in Platforms :
        /\ emitted' = Emitted("get_list_foreign_keys_sql", platform,
                            get_list_foreign_keys_sql(platform, ident))
        /\ UNCHANGED besides_emitted

\* a name of the caller's, and a Platform that has not been called
PlatformInit ==
    /\ ConnectionInit
    /\ qb = QueryBuilder_select
    /\ chain = NoChain
    /\ out = NoOut
    /\ ident \in Idents
    /\ emitted = NoOut
    /\ NoSchema

PlatformNext ==
    \/ QuoteIdentifier
    \/ DropTableSql
    \/ ListColumnsSql
    \/ ListIndexesSql
    \/ ListForeignKeysSql

PlatformSpec == PlatformInit /\ [][PlatformNext]_vars

\* ------------------------------------------- two tasks on one Connection

\* Two tasks call begin_transaction(), commit() and rollback() on the same
\* Connection.  A call loads closed, nesting_level and rollback_only, then
\* awaits the executor, whose lock makes each executor call one step, and
\* then performs its atomic writes; the other task runs in between.

\* the tasks that are inside begin_transaction()
Beginning == {t \in Tasks : tasks[t].op = "begin_transaction"
                            /\ tasks[t].pc # "idle"}

\* the tasks that are inside commit() or rollback()
Ending == {t \in Tasks : tasks[t].op \in {"commit", "rollback"}
                         /\ tasks[t].pc # "idle"}

\* the loads a call starts with, and its early returns: "" when it goes on
early_return(op, s) ==
    IF ensure_not_closed(s) # "Ok" THEN "Closed"
    ELSE IF op # "begin_transaction" /\ s.nesting_level = 0
    THEN "NoActiveTransaction"
    ELSE IF op = "commit" /\ s.rollback_only THEN "RollbackOnly"
    ELSE ""

\* the call of task t from its loads to its early return or to the await
TaskCall(t, op) ==
    /\ pc = "ready"
    /\ tasks[t].pc = "idle"
    /\ LET e == early_return(op, Cur)
       IN  tasks' = [tasks EXCEPT ![t] =
                        [op |-> op,
                         pc |-> IF e = "" THEN "executor" ELSE "idle",
                         current_level |-> nesting_level,
                         result |-> e]]
    /\ UNCHANGED <<nesting_level, rollback_only, closed, in_transaction,
                   engine, pc, unwind_iter, last, begun, ended, obs, reader,
                   guard, iso, text, schema>>

TaskBegin(t) ==
    /\ begun + Cardinality(Beginning) < MaxBegun
    /\ TaskCall(t, "begin_transaction")

TaskCommit(t) ==
    /\ ended + Cardinality(Ending) <= MaxBegun
    /\ TaskCall(t, "commit")

TaskRollback(t) ==
    /\ ended + Cardinality(Ending) <= MaxBegun
    /\ TaskCall(t, "rollback")

\* what the call of task t does with the executor: the branch is chosen by
\* the level the task loaded, the statement runs on the executor as it is now
executor_call(t, s, fail) ==
    LET mine == [s EXCEPT !.nesting_level = tasks[t].current_level,
                          !.rollback_only = FALSE]
    IN  CASE tasks[t].op = "begin_transaction" -> begin_transaction(mine, fail)
          [] tasks[t].op = "commit" -> commit(mine, fail)
          [] tasks[t].op = "rollback" -> rollback(mine, fail)

\* the executor call of task t, under the executor's lock
TaskExecutor(t) ==
    /\ tasks[t].pc = "executor"
    /\ \E fail \in BOOLEAN :
          LET r == executor_call(t, Cur, fail)
          IN  /\ in_transaction' = r.s.in_transaction
              /\ engine' = r.s.engine
              /\ tasks' = [tasks EXCEPT
                              ![t].pc = IF r.result # "Ok" THEN "idle"
                                        ELSE IF tasks[t].op = "begin_transaction"
                                        THEN "fetch_add"
                                        ELSE "fetch_sub",
                              ![t].result = IF r.result # "Ok" THEN r.result
                                            ELSE ""]
    /\ UNCHANGED <<nesting_level, rollback_only, closed, pc, unwind_iter,
                   last, begun, ended, obs, reader, guard, iso, text, schema>>

\* nesting_level.fetch_add(1) of task t, and the return of begin_transaction()
TaskFetchAdd(t) ==
    /\ tasks[t].pc = "fetch_add"
    /\ nesting_level' = (nesting_level + 1) % U32
    /\ begun' = begun + 1
    /\ tasks' = [tasks EXCEPT ![t].pc = "idle", ![t].result = "Ok"]
    /\ UNCHANGED <<rollback_only, closed, in_transaction, engine, pc,
                   unwind_iter, last, ended, obs, reader, guard, iso, text, schema>>

\* nesting_level.fetch_sub(1) of task t
TaskFetchSub(t) ==
    /\ tasks[t].pc = "fetch_sub"
    /\ nesting_level' = (nesting_level - 1) % U32
    /\ tasks' = [tasks EXCEPT ![t].pc = "reset_rollback_only"]
    /\ UNCHANGED <<rollback_only, closed, in_transaction, engine, pc,
                   unwind_iter, last, begun, ended, obs, reader, guard, iso,
                   text, schema>>

\* the load of nesting_level and the store to rollback_only of task t, and
\* the return of commit() or rollback()
TaskResetRollbackOnly(t) ==
    /\ tasks[t].pc = "reset_rollback_only"
    /\ rollback_only' = IF nesting_level = 0 THEN FALSE ELSE rollback_only
    /\ ended' = ended + 1
    /\ tasks' = [tasks EXCEPT ![t].pc = "idle", ![t].result = "Ok"]
    /\ UNCHANGED <<nesting_level, closed, in_transaction, engine, pc,
                   unwind_iter, last, begun, obs, reader, guard, iso, text, schema>>

TasksNext ==
    \E t \in Tasks :
        \/ TaskBegin(t)
        \/ TaskCommit(t)
        \/ TaskRollback(t)
        \/ TaskExecutor(t)
        \/ TaskFetchAdd(t)
        \/ TaskFetchSub(t)
        \/ TaskResetRollbackOnly(t)

TasksSpec == Init /\ [][TasksNext]_vars

\* ------------------------------------------------------ the SchemaManager

\* A type name or a YES/NO flag is a sequence of characters, so that its case
\* can be changed; the names of tables and columns are atoms.

\* SqlValue::I32 and SqlValue::Null, which the metadata rows hold as well
SqlValue_I32(i) == [type |-> "I32", v |-> i]
SqlValue_Null == [type |-> "Null"]

\* char::to_uppercase, for the letters of the type names below
char_to_uppercase(c) ==
    CASE c = "i" -> "I" [] c = "n" -> "N" [] c = "t" -> "T"
      [] c = "e" -> "E" [] c = "g" -> "G" [] c = "r" -> "R"
      [] c = "x" -> "X" [] c = "y" -> "Y" [] c = "s" -> "S"
      [] c = "o" -> "O"
      [] OTHER -> c

\* str::to_uppercase
to_uppercase(s) == [i \in DOMAIN s |-> char_to_uppercase(s[i])]

\* str::eq_ignore_ascii_case
eq_ignore_ascii_case(s, other) == to_uppercase(s) = to_uppercase(other)

\* Platform::name
Platform_name(platform) ==
    CASE platform = "Postgres" -> "postgresql"
      [] platform = "MySql" -> "mysql"
      [] platform = "Sqlite" -> "sqlite"

\* the match on an integer or boolean cell: I64 and I32 are set when not 0
cell_is_set(value) ==
    CASE value.type \in {"I64", "I32"} -> value.v # 0
      [] value.type = "Bool" -> value.v
      [] OTHER -> FALSE

\* the match on a text cell that may be missing: the text, or ""
cell_text(value) == IF value.type = "String" THEN value.v ELSE <<>>

\* the match on the default cell: a text that is not empty
cell_default(value) ==
    IF value.type = "String" /\ value.v # <<>> THEN Some(value.v) ELSE None

ColumnInfo(name, type_name, nullable, default, is_primary_key, is_auto_increment) ==
    [name |-> name, type_name |-> type_name, nullable |-> nullable,
     default |-> default, is_primary_key |-> is_primary_key,
     is_auto_increment |-> is_auto_increment]

\* SchemaManager::parse_sqlite_column_row: cid, name, type, notnull,
\* dflt_value, pk
parse_sqlite_column_row(row) ==
    IF Len(row) < 6 THEN None
    ELSE IF row[2].type # "String" THEN None
    ELSE LET name == row[2].v
             type_name == cell_text(row[3])
             not_null == cell_is_set(row[4])
             default == cell_default(row[5])
             is_primary_key == cell_is_set(row[6])
             is_auto_increment ==
                 is_primary_key
                     /\ to_uppercase(type_name) = <<"I", "N", "T", "E", "G", "E", "R">>
             nullable == IF is_primary_key THEN FALSE ELSE ~not_null
         IN  Some(ColumnInfo(name, type_name, nullable, default,
                             is_primary_key, is_auto_increment))

\* SchemaManager::parse_standard_column_row: column_name, data_type,
\* is_nullable, column_default, ...
parse_standard_column_row(row) ==
    IF row = <<>> THEN None
    ELSE IF row[1].type # "String" THEN None
    ELSE LET name == row[1].v
             type_name == IF Len(row) > 1 THEN cell_text(row[2]) ELSE <<>>
             nullable ==
                 IF Len(row) > 2
                 THEN CASE row[3].type = "String" ->
                               eq_ignore_ascii_case(row[3].v, <<"Y", "E", "S">>)
                        [] row[3].type = "Bool" -> row[3].v
                        [] OTHER -> TRUE
                 ELSE TRUE
             default == IF Len(row) > 3 THEN cell_default(row[4]) ELSE None
         IN  Some(ColumnInfo(name, type_name, nullable, default, FALSE, FALSE))

\* a parse_column_row that looks at the length of the row
parse_column_row_by_shape(platform, row) ==
    IF row = <<>> THEN None
    ELSE IF Len(row) = 6 THEN parse_sqlite_column_row(row)
    ELSE parse_standard_column_row(row)

\* SchemaManager::parse_column_row
parse_column_row(platform, row) ==
    IF row = <<>> THEN None
    ELSE IF Platform_name(platform) = "sqlite"
    THEN parse_sqlite_column_row(row)
    ELSE parse_standard_column_row(row)

\* the declared types and the names of the rows below
T_INTEGER == <<"I", "N", "T", "E", "G", "E", "R">>
T_integer == <<"i", "n", "t", "e", "g", "e", "r">>
T_Integer == <<"I", "n", "t", "e", "g", "e", "r">>
T_INT == <<"I", "N", "T">>
T_TEXT == <<"T", "E", "X", "T">>
C_id == <<"i", "d">>

\* rows of PRAGMA table_info: cid, name, type, notnull, dflt_value, pk
PragmaRows ==
    {<<SqlValue_I64(0), name, type, notnull, dflt, pk>> :
        name \in {SqlValue_String(C_id), SqlValue_Null},
        type \in {SqlValue_String(T_INTEGER), SqlValue_String(T_integer),
                  SqlValue_String(T_Integer), SqlValue_String(T_INT),
                  SqlValue_String(T_TEXT), SqlValue_Null},
        notnull \in {SqlValue_I64(0), SqlValue_I64(1), SqlValue_Bool(TRUE)},
        dflt \in {SqlValue_Null, SqlValue_String(<<"0">>)},
        pk \in {SqlValue_I64(0), SqlValue_I64(1), SqlValue_I64(2),
                SqlValue_I32(1), SqlValue_Bool(FALSE)}}

\* rows of information_schema.columns: column_name, data_type, is_nullable,
\* column_default, character_maximum_length, numeric_precision, numeric_scale
StandardRows ==
    {<<SqlValue_String(C_id), SqlValue_String(type), is_nullable, dflt,
       SqlValue_Null, SqlValue_I64(32), SqlValue_I64(0)>> :
        type \in {T_integer, T_TEXT},
        is_nullable \in {SqlValue_String(<<"Y", "E", "S">>),
                         SqlValue_String(<<"N", "O">>),
                         SqlValue_String(<<"y", "e", "s">>),
                         SqlValue_Bool(FALSE)},
        dflt \in {SqlValue_Null, SqlValue_String(<<"0">>)}}

\* rows that are too short for PRAGMA table_info
ShortRows ==
    {<<>>,
     <<SqlValue_I64(0), SqlValue_String(C_id), SqlValue_String(T_INTEGER),
       SqlValue_I64(1), SqlValue_Null>>}

\* the SchemaManager of a platform parses the row the executor returned
ParseColumnRow ==
    \E platform \in Platforms :
        /\ column_info' = [platform |-> platform,
                           info |-> parse_column_row(platform, cells)]
        /\ UNCHANGED <<nesting_level, rollback_only, closed, in_transaction,
                       engine, pc, unwind_iter, last, begun, ended, obs,
                       reader, guard, iso, text, tasks, declared, catalog,
                       table_info, cells>>

\* a row of column metadata, and a SchemaManager that has parsed nothing
ParseInit ==
    /\ ConnectionInit
    /\ qb = QueryBuilder_select
    /\ chain = NoChain
    /\ out = NoOut
    /\ ident = <<>>
    /\ emitted = NoOut
    /\ declared = None
    /\ catalog = None
    /\ table_info = None
    /\ cells \in PragmaRows \cup StandardRows \cup ShortRows
    /\ column_info = None

ParseNext == ParseColumnRow

ParseSpec == ParseInit /\ [][ParseNext]_vars

\* ------------------------------------------------ tables and their DDL

\* Column::new, Column::not_null, Column::auto_increment
Column_new(name, sql_type) ==
    [name |-> name, sql_type |-> sql_type, nullable |-> TRUE,
     default |-> None, auto_increment |-> FALSE]

not_null(self) == [self EXCEPT !.nullable = FALSE]

auto_increment(self) == [self EXCEPT !.auto_increment = TRUE]

\* Index::primary
Index_primary(cols) ==
    [name |-> <<>>, columns |-> cols, unique |-> TRUE, primary |-> TRUE]

\* Table::new, Table::column, Table::index
Table_new(name) == [name |-> name, columns |-> <<>>, indexes |-> <<>>]

Table_column(self, col) == [self EXCEPT !.columns = Append(@, col)]

Table_index(self, idx) == [self EXCEPT !.indexes = Append(@, idx)]

\* Table::primary_key_columns
Table_primary_key_columns(self) ==
    LET hits == {i \in DOMAIN self.indexes : self.indexes[i].primary}
    IN  IF hits = {} THEN None
        ELSE Some(self.indexes[CHOOSE i \in hits : \A j \in hits : i <= j]
                      .columns)

\* Platform::get_type_declaration, for SqlType::Integer and SqlType::Text
get_type_declaration(platform, sql_type) ==
    CASE sql_type = "Integer" ->
             IF platform = "MySql" THEN T_INT ELSE T_INTEGER
      [] sql_type = "Text" -> T_TEXT

\* Platform::get_column_declaration and its overrides: the quoted name, the
\* type, and the clauses that follow it, in the order they are pushed
get_column_declaration(platform, col) ==
    LET NotNull == IF ~col.nullable THEN <<" NOT NULL">> ELSE <<>>
        Default == IF col.default # None
                   THEN <<" DEFAULT ", col.default[1]>> ELSE <<>>
    IN  [name |-> quote_identifier(platform, col.name),
         type |-> get_type_declaration(platform, col.sql_type),
         clauses |->
             CASE platform = "Postgres" -> NotNull \o Default
               [] platform = "MySql" ->
                      NotNull
                          \o (IF col.auto_increment
                              THEN <<" AUTO_INCREMENT">> ELSE <<>>)
                          \o Default
               [] platform = "Sqlite" ->
                      IF col.auto_increment
                      THEN <<" PRIMARY KEY AUTOINCREMENT">>
                      ELSE NotNull \o Default]

\* Platform::get_create_table_sql and the override of SqlitePlatform, for a
\* table without unique indexes and foreign keys: the statement by parts
get_create_table_sql(platform, tbl) ==
    LET has_auto_inc ==
            \E i \in DOMAIN tbl.columns : tbl.columns[i].auto_increment
        pk_cols == Table_primary_key_columns(tbl)
    IN  [verb |-> "CREATE TABLE",
         name |-> quote_identifier(platform, tbl.name),
         column_defs |->
             [i \in DOMAIN tbl.columns |->
                 get_column_declaration(platform, tbl.columns[i])],
         primary_key |->
             IF platform = "Sqlite" /\ has_auto_inc THEN None
             ELSE IF pk_cols # None
             THEN Some([i \in DOMAIN pk_cols[1] |->
                           quote_identifier(platform, pk_cols[1][i])])
             ELSE None]

\* ------------------------------------------- the database of the executor

\* the name a quoted identifier stands for
RECURSIVE halve(_, _)
halve(s, q) ==
    IF s = <<>> THEN <<>>
    ELSE IF Len(s) >= 2 /\ s[1] = q /\ s[2] = q
    THEN <<q>> \o halve(SubSeq(s, 3, Len(s)), q)
    ELSE <<s[1]>> \o halve(Tail(s), q)

db_name(quoted) == halve(SubSeq(quoted, 2, Len(quoted) - 1), quoted[1])

\* the position of name in names, 0 when it is not there
position(names, name) ==
    IF \E i \in DOMAIN names : names[i] = name
    THEN CHOOSE i \in DOMAIN names : names[i] = name
    ELSE 0

\* the table a CREATE TABLE statement creates: for each column its name, its
\* declared type, whether NOT NULL was written and its place in the primary
\* key (1 for a column-level PRIMARY KEY), 0 outside it
db_table(stmt) ==
    LET key == IF stmt.primary_key = None THEN <<>>
               ELSE [i \in DOMAIN stmt.primary_key[1] |->
                        db_name(stmt.primary_key[1][i])]
    IN  [name |-> db_name(stmt.name),
         columns |->
             [i \in DOMAIN stmt.column_defs |->
                 LET d == stmt.column_defs[i]
                 IN  [name |-> db_name(d.name),
                      type |-> d.type,
                      notnull |-> \E k \in DOMAIN d.clauses :
                                     d.clauses[k] = " NOT NULL",
                      pk |-> IF \E k \in DOMAIN d.clauses :
                                    d.clauses[k] = " PRIMARY KEY AUTOINCREMENT"
                             THEN 1
                             ELSE position(key, db_name(d.name))]]]

\* MySQL refuses an AUTO_INCREMENT column that is not a key
db_accepts(platform, stmt) ==
    LET t == db_table(stmt)
    IN  platform = "MySql"
        => \A i \in DOMAIN t.columns :
              (\E k \in DOMAIN stmt.column_defs[i].clauses :
                  stmt.column_defs[i].clauses[k] = " AUTO_INCREMENT")
              => t.columns[i].pk # 0

\* the rows the database returns for the list-columns query sql: the rows of
\* PRAGMA table_info on SQLite, of information_schema.columns elsewhere, where
\* the columns of a primary key are not nullable
db_query_columns(platform, db, sql) ==
    LET hits == {t \in db : get_list_columns_sql(platform, t.name) = sql}
    IN  IF hits = {} THEN <<>>
        ELSE LET t == CHOOSE x \in hits : TRUE
             IN  [i \in DOMAIN t.columns |->
                     LET c == t.columns[i]
                     IN  IF platform = "Sqlite"
                         THEN <<SqlValue_I64(i - 1), SqlValue_String(c.name),
                                SqlValue_String(c.type),
                                SqlValue_I64(IF c.notnull THEN 1 ELSE 0),
                                SqlValue_Null, SqlValue_I64(c.pk)>>
                         ELSE <<SqlValue_String(c.name),
                                SqlValue_String(c.type),
                                SqlValue_String(IF c.notnull \/ c.pk # 0
                                                THEN <<"N", "O">>
                                                ELSE <<"Y", "E", "S">>),
                                SqlValue_Null, SqlValue_Null,
                                SqlValue_I64(32), SqlValue_I64(0)>>]

\* ------------------------------------- the SchemaManager and its database

\* the Some(..) of a sequence of Options, in their order
RECURSIVE flatten(_)
flatten(options) ==
    IF options = <<>> THEN <<>>
    ELSE options[1] \o flatten(Tail(options))

\* SchemaManager::list_table_columns
list_table_columns(platform, db, table_name) ==
    LET sql == get_list_columns_sql(platform, table_name)
        rows == db_query_columns(platform, db, sql)
    IN  flatten([i \in DOMAIN rows |-> parse_column_row(platform, rows[i])])

\* SchemaManager::introspect_table; the database of the model returns no row
\* for the list-indexes and the list-foreign-keys queries
introspect_table(platform, db, table_name) ==
    [name |-> table_name,
     columns |-> list_table_columns(platform, db, table_name),
     indexes |-> <<>>,
     foreign_keys |-> <<>>]

\* TableInfo::primary_key_columns
TableInfo_primary_key_columns(self) ==
    LET keep(c) == IF c.is_primary_key THEN <<c.name>> ELSE <<>>
    IN  flatten([i \in DOMAIN self.columns |-> keep(self.columns[i])])

\* SchemaManager::create_table: the statement of the platform, executed
create_table(platform, db, tbl) ==
    LET sql == get_create_table_sql(platform, tbl)
    IN  IF db_accepts(platform, sql) /\ \A t \in db : t.name # db_table(sql).name
        THEN [db |-> db \cup {db_table(sql)}, result |-> "Ok"]
        ELSE [db |-> db, result |-> "ExecutionFailed"]

C_name == <<"n", "a", "m", "e">>
C_users == <<"u", "s", "e", "r", "s">>

\* the tables the caller declares: id INTEGER and name TEXT, each nullable or
\* not, id auto-increment or not, and no primary key, id, or id and name
Tables ==
    {LET id == Column_new(C_id, "Integer")
         id1 == IF id_not_null THEN not_null(id) ELSE id
         id2 == IF id_auto THEN auto_increment(id1) ELSE id1
         name == Column_new(C_name, "Text")
         name1 == IF name_not_null THEN not_null(name) ELSE name
         t == Table_column(Table_column(Table_new(C_users), id2), name1)
     IN  IF key = <<>> THEN t ELSE Table_index(t, Index_primary(key)) :
        id_not_null \in BOOLEAN, id_auto \in BOOLEAN,
        name_not_null \in BOOLEAN,
        key \in {<<>>, <<C_id>>, <<C_id, C_name>>}}

\* the SchemaManager of one platform creates the declared table
CreateTable ==
    \E platform \in Platforms :
        /\ catalog = None
        /\ LET r == create_table(platform, {}, declared)
           IN  catalog' = Some([platform |-> platform, db |-> r.db,
                                result |-> r.result])
        /\ UNCHANGED <<nesting_level, rollback_only, closed, in_transaction,
                       engine, pc, unwind_iter, last, begun, ended, obs,
                       reader, guard, iso, text, tasks, declared, table_info,
                       cells, column_info>>

\* the same SchemaManager introspects the table of that name
IntrospectTable ==
    /\ catalog # None
    /\ table_info' = Some(introspect_table(catalog[1].platform, catalog[1].db,
                                           declared.name))
    /\ UNCHANGED <<nesting_level, rollback_only, closed, in_transaction,
                   engine, pc, unwind_iter, last, begun, ended, obs, reader,
                   guard, iso, text, tasks, declared, catalog, cells,
                   column_info>>

\* a Table of the caller's, and a database without tables
SchemaInit ==
    /\ ConnectionInit
    /\ qb = QueryBuilder_select
    /\ chain = NoChain
    /\ out = NoOut
    /\ ident = <<>>
    /\ emitted = NoOut
    /\ declared \in Tables
    /\ catalog = None
    /\ table_info = None
    /\ cells = <<>>
    /\ column_info = None

SchemaNext ==
    \/ CreateTable
    \/ IntrospectTable

SchemaSpec == SchemaInit /\ [][SchemaNext]_vars

\* -------------------------------------------------------- the properties

\* C1: the nesting level is the number of begin_transaction() calls that
\* succeeded minus the number of commit()/rollback() calls that succeeded, it
\* never goes below 0 (the u32 never wraps), and is_transaction_active() is
\* true exactly when the level is greater than 0.
NestingLevelIsBalance ==
    /\ ended <= begun
    /\ transaction_nesting_level(Cur) = begun - ended
    /\ is_transaction_active(Cur) <=> (transaction_nesting_level(Cur) > 0)

\* C1 witness: three begins and two commits/rollbacks succeeded, the last
\* call a commit or rollback that returned Ok, leaving level 1
NestingLevelIsBalanceWitness ==
    /\ begun = 3 /\ ended = 2 /\ nesting_level = 1
    /\ last.op \in {"commit", "rollback"} /\ last.result = "Ok"

\* one begin_transaction(); commit() cycle on s with an executor that accepts
CycleSucceeds(s) ==
    LET b == begin_transaction(s, FALSE)
        c == commit(b.s, FALSE)
    IN  /\ b.result = "Ok"
        /\ c.result = "Ok"
        /\ c.s.nesting_level = s.nesting_level

\* C2: while the connection is open, inside a transaction and rollback-only,
\* every commit() fails with RollbackOnly and changes nothing; the flag stays
\* set while the level stays above 0; and when the level comes back to 0 the
\* flag is false and a begin_transaction()/commit() cycle succeeds.
RollbackOnlyBlocksCommit ==
    [][ /\ (~closed /\ rollback_only /\ nesting_level > 0)
           => \A fail \in BOOLEAN :
                 commit(Cur, fail) = Ret("commit", Cur, "RollbackOnly", <<>>)
        /\ (rollback_only /\ nesting_level > 0 /\ nesting_level' > 0)
           => rollback_only'
        /\ (nesting_level > 0 /\ nesting_level' = 0 /\ ~closed')
           => (~is_rollback_only(Cur') /\ CycleSucceeds(Cur'))
      ]_vars

\* C2 witness: a commit() at depth 2 has just failed with RollbackOnly
RollbackOnlyBlocksCommitWitness ==
    /\ last.op = "commit" /\ last.result = "RollbackOnly"
    /\ nesting_level = 2 /\ rollback_only

\* C3: on an open connection at level 0, commit() and rollback() fail with
\* NoActiveTransaction, make no executor call and change no field.
NoActiveTransactionAtLevelZero ==
    (~closed /\ nesting_level = 0)
    => \A fail \in BOOLEAN :
          /\ commit(Cur, fail) = Ret("commit", Cur, "NoActiveTransaction", <<>>)
          /\ rollback(Cur, fail)
                = Ret("rollback", Cur, "NoActiveTransaction", <<>>)

\* C3 witness: after a transaction has ended, a rollback() at level 0 has
\* failed with NoActiveTransaction
NoActiveTransactionAtLevelZeroWitness ==
    /\ last.op = "rollback" /\ last.result = "NoActiveTransaction"
    /\ ended > 0 /\ nesting_level = 0 /\ ~closed

\* C4: close() with a transaction open terminates, with the level at 0 and
\* the connection closed.
CloseTerminates ==
    (pc = "close_unwind") ~> (pc = "ready" /\ closed /\ nesting_level = 0)

\* C5: every forced rollback that close() makes at depth 1 hands the
\* executor a rollback of the outer transaction.
CloseRollsBackExecutor ==
    [][ (pc = "close_unwind" /\ nesting_level = 1 /\ unwind_iter' # unwind_iter)
        => \E i \in DOMAIN last'.calls : last'.calls[i].fn = "rollback"
      ]_vars

\* C6: on a closed connection query, execute, prepare, begin_transaction,
\* commit, rollback and server_version fail with Closed, and is_alive returns
\* false, each without an executor call and without changing a field.
ClosedRejectsEverything ==
    closed
    => \A fail \in BOOLEAN :
          /\ query(Cur, fail) = Ret("query", Cur, "Closed", <<>>)
          /\ \A row \in Rows :
                execute(Cur, row, fail) = Ret("execute", Cur, "Closed", <<>>)
          /\ prepare(Cur) = Ret("prepare", Cur, "Closed", <<>>)
          /\ begin_transaction(Cur, fail)
                = Ret("begin_transaction", Cur, "Closed", <<>>)
          /\ commit(Cur, fail) = Ret("commit", Cur, "Closed", <<>>)
          /\ rollback(Cur, fail) = Ret("rollback", Cur, "Closed", <<>>)
          /\ server_version(Cur, fail)
                = Ret("server_version", Cur, "Closed", <<>>)
          /\ is_alive(Cur, fail) = Ret("is_alive", Cur, "false", <<>>)

\* C6 witness: an execute() on a closed connection has failed with Closed
ClosedRejectsEverythingWitness ==
    closed /\ pc = "ready" /\ last.op = "execute" /\ last.result = "Closed"

\* C7: after begin; INSERT a; begin; INSERT b; rollback; commit the store
\* holds row a and not row b, and the level is 0.
NestedRollbackIsolation ==
    obs.stage = 6
    => /\ nesting_level = 0
       /\ obs.a \in engine.durable
       /\ obs.b \notin engine.durable
       /\ engine.store = engine.durable
       /\ ~engine.txn

\* C7 witness: the scenario has run to its end with rows A and B
NestedRollbackIsolationWitness ==
    obs.stage = 6 /\ obs.a = "A" /\ obs.b = "B" /\ last.op = "commit"

\* C8: when transactional_boxed has run on an open connection and the
\* executor accepted every call, it either returned the operation's value
\* with the whole work kept and its transaction or savepoint committed, or
\* returned the operation's error with the whole work rolled back; either way
\* the level is the level at the call.
TransactionalIsAtomic ==
    [][ ( /\ last'.op = "transactional_boxed"
          /\ ~closed
          /\ \A i \in DOMAIN last'.calls : last'.calls[i].ok )
        => /\ nesting_level' = nesting_level
           /\ \/ /\ last'.result = "OpValue"
                 /\ engine'.store = engine.store \cup last'.work
              \/ /\ last'.result = "OpError"
                 /\ engine'.store = engine.store
      ]_vars

\* C9: close() on a closed connection returns Ok, makes no executor call and
\* changes no state.
CloseIsIdempotent ==
    [][ (closed /\ pc = "ready" /\ last'.op = "close")
        => /\ last'.result = "Ok"
           /\ last'.calls = <<>>
           /\ UNCHANGED <<nesting_level, rollback_only, closed, in_transaction,
                          engine, pc>>
      ]_vars

\* C9 witness: a second close() has returned
CloseIsIdempotentWitness ==
    /\ closed /\ pc = "ready" /\ begun > 0
    /\ last.op = "close" /\ last.was_closed /\ last.result = "Ok"

\* C10: once close() has completed, no operation changes nesting_level,
\* rollback_only or closed.
ClosedIsTerminal ==
    [][ (closed /\ pc = "ready")
        => UNCHANGED <<nesting_level, rollback_only, closed>> ]_vars

\* C11: a task that loads transaction_nesting_level(), is_rollback_only() and
\* is_closed() while begin_transaction(), commit() or rollback() runs on
\* another task sees the state before the call or the state after it
ReaderSeesBeforeOrAfter ==
    (InFlight /\ rpc = 3) => seen \in {before, after}

\* the Results by which an operation hands an executor failure to its caller:
\* the executor's error, unchanged or wrapped, and the false of is_alive()
ExecutorErrors ==
    {"ExecutionFailed", "CommitFailed", "RollbackFailed", "AlreadyActive",
     "NoActiveTransaction", "false"}

\* the RELEASE SAVEPOINT of a commit() at nested depth
IsReleaseOfCommit(c) == c.sql.verb = "RELEASE SAVEPOINT"

\* a rollback issued by close() while it unwinds
IsRollbackOfClose(l, c) ==
    l.op = "close" /\ c.sql.verb \in {"ROLLBACK", "ROLLBACK TO SAVEPOINT"}

\* the rollback issued by transactional_boxed() after its operation failed
IsRollbackOfTransactional(l, c) ==
    /\ l.op = "transactional_boxed"
    /\ l.result = "OpError"
    /\ c.sql.verb \in {"ROLLBACK", "ROLLBACK TO SAVEPOINT", ""}
    /\ c.fn \in {"rollback", "execute"}

\* C12: an executor call that fails makes the operation return its error,
\* except the RELEASE SAVEPOINT of a nested commit() and the rollbacks of
\* close()
OnlyTwoFailuresSwallowed ==
    [][\A i \in DOMAIN last'.calls :
          ~last'.calls[i].ok =>
              \/ last'.result \in ExecutorErrors
              \/ IsReleaseOfCommit(last'.calls[i])
              \/ IsRollbackOfClose(last', last'.calls[i])]_vars

\* C12, with the third place: the rollback of transactional_boxed() after the
\* operation failed is swallowed too, and the operation's own error returned
OnlyThreeFailuresSwallowed ==
    [][\A i \in DOMAIN last'.calls :
          ~last'.calls[i].ok =>
              \/ last'.result \in ExecutorErrors
              \/ IsReleaseOfCommit(last'.calls[i])
              \/ IsRollbackOfClose(last', last'.calls[i])
              \/ IsRollbackOfTransactional(last', last'.calls[i])]_vars

\* transactional_boxed() has returned the operation's error after the
\* executor refused the rollback
OnlyThreeFailuresSwallowedWitness ==
    /\ last.op = "transactional_boxed"
    /\ last.result = "OpError"
    /\ \E i \in DOMAIN last.calls :
          /\ ~last.calls[i].ok
          /\ last.calls[i].sql.verb = "ROLLBACK"
    /\ nesting_level = 1

\* C13: a TransactionGuard dropped without commit() or rollback() rolls its
\* transaction back: the executor receives the rollback and the nesting level
\* is the one before the transaction was begun
GuardDropRollsBack ==
    [][(guard.state = "held" /\ guard'.state = "dropped"
            /\ ~guard'.committed /\ ~guard'.rolled_back)
       => /\ nesting_level' = guard.level_before
          /\ \E i \in DOMAIN last'.calls :
                /\ last'.calls[i].ok
                /\ last'.calls[i].sql.verb
                       \in {"ROLLBACK", "ROLLBACK TO SAVEPOINT"}]_vars

\* C14: a begin_transaction() at nesting level 0 starts the executor's
\* transaction at the level set with set_transaction_isolation(), and
\* transaction_isolation() returns that level
IsolationLevelApplies ==
    [][/\ (last'.op = "begin_transaction" /\ last'.result = "Ok"
              /\ nesting_level = 0)
          => executor_isolation' = isolation_level
       /\ last'.op = "transaction_isolation"
          => last'.result = isolation_level]_vars

\* select().columns(["id", "name"]).from("users").where_eq("active", true)
ExampleBuilder ==
    where_eq(from(columns(QueryBuilder_select, <<N_id, N_name>>), N_users),
             N_active, SqlValue_Bool(TRUE))

\* SELECT "id", "name" FROM "users" WHERE "active" = true
ExampleSql ==
    <<"SELECT ", "\"", "i", "d", "\"", ", ", "\"", "n", "a", "m", "e", "\"",
      " FROM ", "\"", "u", "s", "e", "r", "s", "\"",
      " WHERE ", "\"", "a", "c", "t", "i", "v", "e", "\"", " ", "=", " ",
      "true">>

\* C15: to_sql() leaves the builder as it was, a second call returns the text
\* of the first, and the example builder gives the example text on PostgreSQL
ToSqlIsPure ==
    [][out'.fn = "to_sql"
       => /\ qb' = qb
          /\ (out.fn = "to_sql" /\ out.platform = out'.platform)
                => out'.sql = out.sql
          /\ (qb = ExampleBuilder /\ out'.platform = "Postgres")
                => out'.sql = ExampleSql]_vars

\* the example builder after its second to_sql(PostgresPlatform)
ToSqlIsPureWitness ==
    /\ qb = ExampleBuilder
    /\ out.fn = "to_sql"
    /\ out.nth = 2
    /\ out.platform = "Postgres"
    /\ out.sql = ExampleSql

\* the builder without its RETURNING columns
WithoutReturning(self) == [self EXCEPT !.returning = <<>>]

\* C16: an INSERT, UPDATE or DELETE with RETURNING columns gets the RETURNING
\* clause appended on PostgreSQL and SQLite and nothing appended on MySQL, and
\* the statement before the clause differs between the platforms in the
\* identifier quote character only
ReturningFollowsPlatform ==
    (qb.query_type \in {"Insert", "Update", "Delete"} /\ qb.returning # <<>>)
    => /\ \A p \in {"Postgres", "Sqlite"} :
             to_sql(qb, p) =
                 to_sql(WithoutReturning(qb), p) \o <<" RETURNING ">>
                     \o join([i \in DOMAIN qb.returning |->
                                 quote_identifier(p, qb.returning[i])],
                             <<", ">>)
       /\ to_sql(qb, "MySql") = to_sql(WithoutReturning(qb), "MySql")
       /\ replace(to_sql(WithoutReturning(qb), "MySql"), BACKTICK, <<"\"">>)
              = to_sql(WithoutReturning(qb), "Postgres")
       /\ to_sql(WithoutReturning(qb), "Sqlite")
              = to_sql(WithoutReturning(qb), "Postgres")

\* to_sql(MySqlPlatform) has returned the text of an UPDATE that has
\* RETURNING columns and a WHERE condition
ReturningFollowsPlatformWitness ==
    /\ qb.query_type = "Update"
    /\ qb.returning # <<>>
    /\ qb.where_expr # None
    /\ out.fn = "to_sql"
    /\ out.platform = "MySql"
    /\ out.sql = to_sql(WithoutReturning(qb), "MySql")

\* e1.and(e2)...and(en) and e1.or(e2)...or(en)
RECURSIVE AndChain(_)
AndChain(es) ==
    IF Len(es) = 1 THEN es[1]
    ELSE Expr_and(AndChain(SubSeq(es, 1, Len(es) - 1)), es[Len(es)])

RECURSIVE OrChain(_)
OrChain(es) ==
    IF Len(es) = 1 THEN es[1]
    ELSE Expr_or(OrChain(SubSeq(es, 1, Len(es) - 1)), es[Len(es)])

\* the operands e contributes to a node of the given kind
Operands(e, kind) == IF e.kind = kind THEN e.exprs ELSE <<e>>

\* the text of an n-ary node: its operands joined inside one pair of parentheses
Parenthesised(es, word, platform) ==
    <<"(">> \o join([i \in DOMAIN es |-> expr_to_sql(es[i], platform)], word)
        \o <<")">>

\* C17: for the expressions e1..en (n >= 2) handed to where_expr()/where_eq(),
\* e1.and(e2)...and(en) is the one And node with the children e1..en, likewise
\* for or, the builder holds that And node, and the WHERE clause is the one
\* parenthesised n-ary AND of the children
AndOrKeepOperands ==
    Len(chain.wheres) >= 2
    => /\ AndChain(chain.wheres) = Expr_And(chain.wheres)
       /\ OrChain(chain.wheres) = Expr_Or(chain.wheres)
       /\ ~chain.or_where
          => /\ qb.where_expr = Some(Expr_And(chain.wheres))
             /\ \A p \in Platforms :
                   where_sql(qb, p) =
                       <<" WHERE ">>
                           \o Parenthesised(chain.wheres, <<" AND ">>, p)

\* C17, with the first operand flattened: when e1 is itself an And node (an Or
\* node for or) its children take its place, followed by e2..en
AndOrFlatten ==
    Len(chain.wheres) >= 2
    => LET ands == Operands(chain.wheres[1], "And") \o Tail(chain.wheres)
           ors == Operands(chain.wheres[1], "Or") \o Tail(chain.wheres)
       IN  /\ AndChain(chain.wheres) = Expr_And(ands)
           /\ OrChain(chain.wheres) = Expr_Or(ors)
           /\ ~chain.or_where
              => /\ qb.where_expr = Some(Expr_And(ands))
                 /\ \A p \in Platforms :
                       where_sql(qb, p) =
                           <<" WHERE ">>
                               \o Parenthesised(ands, <<" AND ">>, p)

\* three conditions were handed to where_expr()/where_eq(), the builder holds
\* one And node with three children, and to_sql() has compiled it
AndOrFlattenWitness ==
    /\ Len(chain.wheres) = 3
    /\ ~chain.or_where
    /\ qb.where_expr # None
    /\ qb.where_expr[1].kind = "And"
    /\ Len(qb.where_expr[1].exprs) = 3
    /\ qb.where_expr[1].exprs = chain.wheres
    /\ out.fn = "to_sql"

\* pat occurs in text
Contains(txt, pat) ==
    \E i \in 1..(Len(txt) - Len(pat) + 1) :
        SubSeq(txt, i, i + Len(pat) - 1) = pat

\* the column references of the statement to_sql() builds for the platform
ColumnReferences(self, platform) ==
    {self.columns[i] : i \in DOMAIN self.columns}
        \cup {self.group_by[i] : i \in DOMAIN self.group_by}
        \cup {self.order_by[i].column : i \in DOMAIN self.order_by}
        \cup {self.set_values[i][1] : i \in DOMAIN self.set_values}
        \cup (IF self.query_type # "Select" /\ supports_returning(platform)
              THEN {self.returning[i] : i \in DOMAIN self.returning}
              ELSE {})

\* C18: in the text to_sql() returns, every column reference is quoted with
\* the platform's quote_identifier, and the column * is never quoted
ColumnsQuotedStarBare ==
    out.fn = "to_sql"
    => /\ \A c \in ColumnReferences(qb, out.platform) \ {N_star} :
             Contains(out.sql, quote_identifier(out.platform, c))
       /\ ~Contains(out.sql, quote_identifier(out.platform, N_star))

\* the quote character of each platform
QuoteCharOf(platform) ==
    CASE platform = "Postgres" -> "\""
      [] platform = "MySql" -> BACKTICK
      [] platform = "Sqlite" -> "\""

\* s with each doubled quote character replaced by a single one
RECURSIVE Undouble(_, _)
Undouble(s, q) ==
    IF s = <<>> THEN <<>>
    ELSE IF Len(s) >= 2 /\ s[1] = q /\ s[2] = q
    THEN <<q>> \o Undouble(SubSeq(s, 3, Len(s)), q)
    ELSE <<s[1]>> \o Undouble(Tail(s), q)

\* C19: on each platform quote_identifier(name) starts and ends with the
\* quote character, and without the outer quotes and with each doubled quote
\* character replaced by a single one it is the name again
QuoteIdentifierRoundTrip ==
    emitted.fn = "quote_identifier"
    => LET q == QuoteCharOf(emitted.platform)
           s == emitted.sql
       IN  /\ Len(s) >= 2
           /\ s[1] = q
           /\ s[Len(s)] = q
           /\ Undouble(SubSeq(s, 2, Len(s) - 1), q) = ident

\* MySqlPlatform has quoted a name that holds a backtick
QuoteIdentifierRoundTripWitness ==
    /\ emitted.fn = "quote_identifier"
    /\ emitted.platform = "MySql"
    /\ ident = <<"a", BACKTICK, "'">>
    /\ emitted.sql = <<BACKTICK, "a", BACKTICK, BACKTICK, "'", BACKTICK>>

\* the position of the quote character that closes the identifier or literal
\* whose text starts at position i: a doubled quote character is text
RECURSIVE Closing(_, _, _)
Closing(txt, i, q) ==
    IF i > Len(txt) THEN 0
    ELSE IF txt[i] # q THEN Closing(txt, i + 1, q)
    ELSE IF i < Len(txt) /\ txt[i + 1] = q THEN Closing(txt, i + 2, q)
    ELSE i

\* what the function that returned emitted returns for the empty name
EmittedForEmptyName ==
    CASE emitted.fn = "get_drop_table_sql" ->
             get_drop_table_sql(emitted.platform, <<>>)
      [] emitted.fn = "get_list_columns_sql" ->
             get_list_columns_sql(emitted.platform, <<>>)
      [] emitted.fn = "get_list_indexes_sql" ->
             get_list_indexes_sql(emitted.platform, <<>>)
      [] emitted.fn = "get_list_foreign_keys_sql" ->
             get_list_foreign_keys_sql(emitted.platform, <<>>)

\* C20: the table name a Platform embeds in DDL and in the introspection
\* queries is escaped: the identifier or literal that holds it is closed by
\* the quote character the Platform wrote after the name and by none inside
\* the name, and unescaped it is the name
EmbeddedNamesAreEscaped ==
    emitted.fn \in {"get_drop_table_sql", "get_list_columns_sql",
                    "get_list_indexes_sql", "get_list_foreign_keys_sql"}
    => LET blank == EmittedForEmptyName
           q == blank[2]
           s == emitted.sql
           end == Closing(s, 3, q)
       IN  /\ s[2] = q
           /\ end # 0
           /\ SubSeq(s, end + 1, Len(s)) = SubSeq(blank, 4, Len(blank))
           /\ Undouble(SubSeq(s, 3, end - 1), q) = ident

\* C22: whatever begin_transaction(), commit() and rollback() calls were made
\* one at a time, and whichever executor calls failed, the nesting level is 0
\* exactly when the executor has no transaction open (SqliteConnection's
\* in_transaction is false, and so is the engine's)
LevelZeroIffNoTransaction ==
    /\ (nesting_level = 0) <=> ~in_transaction
    /\ in_transaction <=> engine.txn

\* C22 witness: at depth 1 the executor has refused COMMIT, and the
\* transaction is still open on both sides
LevelZeroIffNoTransactionWitness ==
    /\ last.op = "commit" /\ last.result = "CommitFailed"
    /\ nesting_level = 1 /\ in_transaction /\ begun >= 2 /\ ended >= 1

\* C23: on an open connection that is not rollback-only, commit() at depth
\* n > 1 issues RELEASE SAVEPOINT RUSTINE_(n-1), returns Ok and leaves depth
\* n - 1 whether or not the executor accepted the statement; commit() at
\* depth 1 calls the executor's commit and, when that succeeds, leaves depth
\* 0; every commit() that returns Ok has lowered the level by exactly one
CommitLeavesOneLevel ==
    (~closed /\ ~rollback_only /\ nesting_level >= 1)
    => \A fail \in BOOLEAN :
          LET c == commit(Cur, fail)
              n == nesting_level
          IN  /\ n > 1
                 => /\ Len(c.calls) = 1
                    /\ c.calls[1].fn = "execute"
                    /\ c.calls[1].sql
                          = Sql("RELEASE SAVEPOINT", <<"RUSTINE_", n - 1>>, "")
                    /\ fail => ~c.calls[1].ok
                    /\ c.result = "Ok"
                    /\ c.s.nesting_level = n - 1
              /\ n = 1
                 => /\ Len(c.calls) = 1
                    /\ c.calls[1].fn = "commit"
                    /\ c.calls[1].sql.verb = "COMMIT"
                    /\ c.result = "Ok" => c.s.nesting_level = 0
              /\ c.result = "Ok" => c.s.nesting_level = n - 1

\* C23 witness: a commit() at depth 2 has returned Ok and left depth 1 though
\* the executor refused RELEASE SAVEPOINT RUSTINE_1
CommitLeavesOneLevelWitness ==
    /\ last.op = "commit" /\ last.result = "Ok"
    /\ Len(last.calls) = 1
    /\ last.calls[1].sql = Sql("RELEASE SAVEPOINT", <<"RUSTINE_", 1>>, "")
    /\ ~last.calls[1].ok
    /\ nesting_level = 1 /\ ~closed

\* C24: every rollback() made at depth 1 on an open connection hands the
\* executor its native ROLLBACK and leaves the connection at level 0 with
\* the rollback-only flag cleared, whatever the executor answers
RollbackAtDepthOneClears ==
    (/\ last.op = "rollback"
     /\ ~last.was_closed
     /\ Len(last.calls) = 1
     /\ last.calls[1].fn = "rollback")
    => /\ last.calls[1].sql.verb = "ROLLBACK"
       /\ nesting_level = 0
       /\ ~rollback_only

\* the label the claim gives the savepoint of depth n
label(n) == <<"RUSTINE_", n>>

\* C25: the savepoint label is a function of the depth alone.  On an open
\* connection begin_transaction() at depth n >= 1 issues SAVEPOINT label(n);
\* commit() and rollback() at depth n + 1 issue RELEASE SAVEPOINT and
\* ROLLBACK TO SAVEPOINT on label(n); and the savepoint they name is one the
\* executor holds, so that it accepts the statement unless it fails itself
SavepointLabelFollowsDepth ==
    ~closed
    => \A fail \in BOOLEAN :
          LET n == nesting_level
              b == begin_transaction(Cur, fail)
              c == commit(Cur, fail)
              r == rollback(Cur, fail)
          IN  /\ n >= 1
                 => /\ Len(b.calls) = 1
                    /\ b.calls[1].sql = Sql("SAVEPOINT", label(n), "")
              /\ n >= 2
                 => /\ FindSavepoint(engine.savepoints, label(n - 1)) # 0
                    /\ Len(r.calls) = 1
                    /\ r.calls[1].sql
                          = Sql("ROLLBACK TO SAVEPOINT", label(n - 1), "")
                    /\ r.calls[1].ok = ~fail
                    /\ ~rollback_only
                       => /\ Len(c.calls) = 1
                          /\ c.calls[1].sql
                                = Sql("RELEASE SAVEPOINT", label(n - 1), "")
                          /\ c.calls[1].ok = ~fail

\* C25 witness: the cycle begin_transaction()/rollback() has run twice at
\* depth 1, both times on RUSTINE_1
SavepointLabelFollowsDepthWitness ==
    /\ last.op = "rollback" /\ last.result = "Ok"
    /\ last.calls[1].sql = Sql("ROLLBACK TO SAVEPOINT", label(1), "")
    /\ nesting_level = 1 /\ begun = 3 /\ ended = 2
    /\ Len(engine.savepoints) = 2
    /\ \A i \in 1..2 : engine.savepoints[i].name = label(1)

\* C27: on an open connection, whatever begin_transaction(), commit(),
\* rollback() and set_rollback_only() calls were made, nesting level 0
\* implies that is_rollback_only() is false, so that the commit() of the next
\* transaction does not fail with RollbackOnly
NoRollbackOnlyAtLevelZero ==
    (~closed /\ transaction_nesting_level(Cur) = 0)
    => /\ ~is_rollback_only(Cur)
       /\ commit(begin_transaction(Cur, FALSE).s, FALSE).result = "Ok"

\* C28: whenever transactional_boxed returns, with a value or with an error,
\* transaction_nesting_level() is what it was when the call was made
TransactionalIsBalanced ==
    [][ last'.op = "transactional_boxed"
        => transaction_nesting_level(Cur') = transaction_nesting_level(Cur)
      ]_vars

\* r is a call whose one executor call failed
ExecutorRefused(r) == Len(r.calls) = 1 /\ ~r.calls[1].ok

\* C30: when the executor call of begin_transaction() (BEGIN or SAVEPOINT),
\* of commit() at depth 1 (COMMIT) or of rollback() at depth > 1 (ROLLBACK TO
\* SAVEPOINT) fails, the operation returns an error and nesting_level,
\* rollback_only and closed are what they were before the call
FailedCallChangesNothing ==
    \A fail \in BOOLEAN :
        LET b == begin_transaction(Cur, fail)
            c == commit(Cur, fail)
            r == rollback(Cur, fail)
        IN  /\ ExecutorRefused(b)
               => b.result # "Ok" /\ Getters(b.s) = Getters(Cur)
            /\ (nesting_level = 1 /\ ExecutorRefused(c))
               => c.result # "Ok" /\ Getters(c.s) = Getters(Cur)
            /\ (nesting_level > 1 /\ ExecutorRefused(r))
               => r.result # "Ok" /\ Getters(r.s) = Getters(Cur)

\* C30 witness: at depth 2, rollback-only, the executor has refused ROLLBACK
\* TO SAVEPOINT and rollback() has returned the error
FailedCallChangesNothingWitness ==
    /\ last.op = "rollback" /\ last.result = "RollbackFailed"
    /\ Len(last.calls) = 1
    /\ last.calls[1].sql.verb = "ROLLBACK TO SAVEPOINT"
    /\ ~last.calls[1].ok
    /\ nesting_level = 2 /\ rollback_only /\ ~closed

\* no task is inside a call
Quiescent == \A t \in Tasks : tasks[t].pc = "idle"

\* C29: however the begin_transaction(), commit() and rollback() calls of two
\* tasks interleave, once the calls have returned the nesting level has not
\* wrapped below 0, it is the number of begin_transaction() calls that
\* returned Ok minus the number of commit()/rollback() calls that returned Ok,
\* and it is 0 only when the executor has no transaction open
ConcurrentLevelIsSound ==
    Quiescent
    => /\ ended <= begun
       /\ nesting_level = begun - ended
       /\ nesting_level = 0 => (~in_transaction /\ ~engine.txn)

\* a cell that holds a number other than 0, or true
NonZero(cell) ==
    \/ cell.type \in {"I64", "I32"} /\ cell.v # 0
    \/ cell.type = "Bool" /\ cell.v

\* the lower-case letter of a letter of INTEGER
Lower(c) ==
    CASE c = "I" -> "i" [] c = "N" -> "n" [] c = "T" -> "t"
      [] c = "E" -> "e" [] c = "G" -> "g" [] c = "R" -> "r"
      [] OTHER -> c

\* the cell holds the text INTEGER, in any case
IsIntegerType(cell) ==
    /\ cell.type = "String"
    /\ Len(cell.v) = 7
    /\ \A i \in 1..7 : Lower(cell.v[i]) = <<"i", "n", "t", "e", "g", "e", "r">>[i]

\* C26: from a PRAGMA table_info row of at least 6 cells with a text name
\* the SQLite parser makes a ColumnInfo whose is_auto_increment is true
\* exactly when the pk cell is not 0 and the declared type is INTEGER in any
\* case, and whose nullable is false when the pk cell is not 0 and the
\* negation of notnull otherwise; and the parser is the one of the
\* platform's name tag whatever the shape of the row
SqliteColumnParsing ==
    column_info # None
    => LET row == cells
           c == column_info.info
       IN  /\ (/\ column_info.platform = "Sqlite"
               /\ Len(row) >= 6
               /\ row[2].type = "String")
              => /\ c # None
                 /\ c[1].is_auto_increment
                       <=> (NonZero(row[6]) /\ IsIntegerType(row[3]))
                 /\ NonZero(row[6]) => ~c[1].nullable
                 /\ ~NonZero(row[6]) => (c[1].nullable <=> ~NonZero(row[4]))
           /\ (column_info.platform = "Sqlite" /\ row # <<>>)
              => c = parse_sqlite_column_row(row)
           /\ (column_info.platform # "Sqlite" /\ row # <<>>)
              => c = parse_standard_column_row(row)

\* C26 witness: the SQLite parser has seen pk = 1 with notnull = 0 and the
\* type written integer, and returned an auto-increment, non-nullable column
SqliteColumnParsingWitness ==
    /\ column_info # None
    /\ column_info.platform = "Sqlite"
    /\ cells = <<SqlValue_I64(0), SqlValue_String(C_id),
                 SqlValue_String(T_integer), SqlValue_I64(0), SqlValue_Null,
                 SqlValue_I64(1)>>
    /\ column_info.info # None
    /\ column_info.info[1].is_auto_increment
    /\ ~column_info.info[1].nullable

\* C21: after create_table of a declared Table and introspect_table of its
\* name, on each platform, the TableInfo has the declared column names, for
\* each column the declared nullability, and primary_key_columns() is the
\* declared primary key
SchemaRoundTrip ==
    (/\ table_info # None
     /\ catalog # None
     /\ catalog[1].result = "Ok")
    => LET info == table_info[1]
           key == Table_primary_key_columns(declared)
       IN  /\ {info.columns[i].name : i \in DOMAIN info.columns}
                 = {declared.columns[i].name : i \in DOMAIN declared.columns}
           /\ \A i \in DOMAIN info.columns, j \in DOMAIN declared.columns :
                 info.columns[i].name = declared.columns[j].name
                 => info.columns[i].nullable = declared.columns[j].nullable
           /\ TableInfo_primary_key_columns(info)
                 = IF key = None THEN <<>> ELSE key[1]

====
